---- MODULE Spec2Model ----
(***************************************************************************)
(* Model of the Zulip bot's orchestration core:                            *)
(*   - the event loop of index.ts (register, long-poll, dispatch, recover) *)
(*   - the service dispatch chain of bot.ts (handleMessage)                *)
(*   - the promote paths of services/tasks.ts over the tasks table         *)
(*   - the feed-item markers of db.ts                                      *)
(* Every async function is a process whose atomic steps run from one       *)
(* await to the next (single-threaded cooperative scheduling).             *)
(***************************************************************************)
EXTENDS Integers, Sequences, FiniteSets, TLC

\* ---------------------------------------------------------------- bounds
\* events the gateway delivers over a run
MaxEvents == 2
\* handleMessage calls in flight at once
MaxMentions == 1
\* events one poll response carries at most
MaxBatch == 2
\* event queues the gateway hands out over a run
MaxQueues == 2
\* tasks-service handlers (promote commands and reactions) in a behaviour
MaxPromotes == 2
\* stream messages that exist before the bot posts anything
MaxSourceMsgs == 1
\* dashboards created over a behaviour
MaxDashboards == 2
\* markFeedItemSeen calls in a behaviour
MaxMarks == 4
\* reaction events delivered one after another to the tasks service
MaxToggles == 3
\* dashboard commands, reactions and ticks in a behaviour
MaxDashProcs == 2
\* assign and unassign commands, with the promotes before them
MaxAssigns == 3
\* tasks in the table when a lookup arrives
MaxLookupTasks == 2
\* MAX_MESSAGE_LENGTH, scaled: the longest chunk of an answer
MaxChunkLen == 3
\* the longest answer handed to finalize
MaxTextLen == 7
\* words streamed by the answering engine before it returns
MaxWords == 81
\* elapsed-time edits of one placeholder
MaxSpinnerEdits == 2

\* ------------------------------------------------------ program constants
BACKOFF_MS == 5000

\* The services directory holds dashboards.ts and tasks.ts; loadServices
\* keeps the enabled ones in directory order (SERVICE_<NAME> toggles).
Registry == <<"dashboards", "tasks">>

ActiveServiceLists ==
  { <<>>, <<"dashboards">>, <<"tasks">>, <<"dashboards", "tasks">> }

\* Both services of the repository define onMessage and onReaction.
HasOnMessage(svc) == svc \in {"dashboards", "tasks"}

HasOnReaction(svc) == svc \in {"dashboards", "tasks"}

SvcIdx == 1..Len(Registry)

\* Messages a failed events.retrieve can carry.
PollErrors == {"BAD_EVENT_QUEUE_ID: Bad event queue ID 3", "ETIMEDOUT"}

\* errorMsg.includes("BAD_EVENT_QUEUE_ID")
IsQueueExpired(errorMsg) == errorMsg = "BAD_EVENT_QUEUE_ID: Bad event queue ID 3"

VARIABLES
  services,     \* Service[] returned by loadServices
  \* ---- event loop (index.ts)
  loopPc,       \* where main/eventLoop is suspended
  queueId,      \* eventLoop local
  lastEventId,  \* eventLoop local (the cursor)
  pollArgs,     \* arguments of the poll in flight (or of the last one)
  gwQueues,     \* gateway: queues registered so far
  gwSeq,        \* gateway: events delivered so far
  events,       \* log of the events received, by arrival number
  okPolls,      \* successful polls so far
  hmCalls,      \* handleMessage invocations per event
  msgPromise,   \* state of the promise handleMessage returned, per event
  rxCalls,      \* onReaction invocations per event and service index
  rxPromise,    \* state of the promise onReaction returned
  prevPoll,     \* outcome and arguments of the last completed poll
  regsSince,    \* registerQueue calls since the last completed poll
  sleepsSince,  \* backoff sleeps since the last completed poll
  sleptMs,      \* duration of the last backoff sleep
  lastReg,      \* result of the last successful registerQueue
  registered,   \* the first queue has been registered
  \* ---- dispatch chain (bot.ts)
  mh,           \* one handleMessage call per mention slot
  \* ---- tasks service (services/tasks.ts, db.ts)
  tasks,        \* table tasks, row i has id i
  assignees,    \* table task_assignees
  cards,        \* task cards posted so far
  th,           \* the tasks-service handlers, in the order they started
  \* ---- feed de-duplication (db.ts)
  dashboards,   \* ids of the rows of table dashboards
  dashSeq,      \* AUTOINCREMENT sequence of table dashboards
  feed_items,   \* table feed_items
  markLog,      \* the markFeedItemSeen calls made so far, with their results
  \* ---- dashboards service (services/dashboards.ts, dashboards/rss.ts)
  timers,       \* keys of the timers map (dashboard row ids)
  objs,         \* the row object start or init built for a row id
  dp,           \* the dashboard commands, reactions and ticks, in order
  posts,        \* standalone item messages posted so far
  pinSeq,       \* placeholder messages posted so far
  schedUp,      \* dashboards.init has run
  \* ---- streaming composer (zulip.ts) under the fallback of handleMessage
  stream,       \* the closure of startStreamingMessage
  remote,       \* calls issued to the chat platform for this answer
  fb            \* handleMessage from line 73 on: where it is suspended

loopVars == <<loopPc, queueId, lastEventId, pollArgs, gwQueues, gwSeq, events,
              okPolls, hmCalls, msgPromise, rxCalls, rxPromise, prevPoll,
              regsSince, sleepsSince, sleptMs, lastReg, registered>>

taskVars == <<tasks, assignees, cards, th>>

feedVars == <<dashboards, dashSeq, feed_items, markLog>>

schedVars == <<timers, objs, dp, posts, pinSeq, schedUp>>

streamVars == <<stream, remote, fb>>

vars == <<services, loopVars, mh, taskVars, feedVars, schedVars, streamVars>>

EventIds == 1..MaxEvents

NoEvent == [type |-> "none", queue |-> 0, id |-> -1, batch |-> 0]

InitLoop ==
  /\ loopPc = "startup"
  /\ queueId = 0
  /\ lastEventId = -1
  /\ pollArgs = [queue_id |-> 0, last_event_id |-> -1]
  /\ gwQueues = 0
  /\ gwSeq = 0
  /\ events = [s \in EventIds |-> NoEvent]
  /\ okPolls = 0
  /\ hmCalls = [s \in EventIds |-> 0]
  /\ msgPromise = [s \in EventIds |-> "none"]
  /\ rxCalls = [s \in EventIds |-> [i \in SvcIdx |-> 0]]
  /\ rxPromise = [s \in EventIds |-> [i \in SvcIdx |-> "none"]]
  /\ prevPoll = [outcome |-> "none", queue_id |-> 0, last_event_id |-> -1]
  /\ regsSince = 0
  /\ sleepsSince = 0
  /\ sleptMs = 0
  /\ lastReg = [queueId |-> 0, lastEventId |-> -1]
  /\ registered = FALSE

Mentions == 1..MaxMentions

NoMessage == [type |-> "none", sender_email |-> "none", flags |-> {},
              content |-> <<>>]

IdleHandler ==
  [pc |-> "none", ev |-> NoMessage, svc |-> 0, calls |-> <<>>, threw |-> {},
   claimedBy |-> 0, placeholders |-> 0, engine |-> 0, facts |-> {}]

InitChain == mh = [m \in Mentions |-> IdleHandler]

Promotes == 1..MaxPromotes

\* the handler slots of the behaviour
TaskHandlers == DOMAIN th

IdleTaskHandler ==
  [kind |-> "none", pc |-> "none", msg |-> 0, user |-> "none", op |-> "none",
   emoji |-> "none", mentions |-> <<>>, creator |-> "none", hadTask |-> FALSE,
   taskId |-> 0, fx |-> {}, err |-> "none", exit |-> "none",
   result |-> <<>>, snap |-> <<>>, edit |-> 0, rendered |-> <<>>]

InitTasks ==
  /\ tasks = <<>>
  /\ assignees = <<>>
  /\ cards = 0
  /\ th = [h \in Promotes |-> IdleTaskHandler]

InitFeed ==
  /\ dashboards = {}
  /\ dashSeq = 0
  /\ feed_items = {}
  /\ markLog = <<>>

DashProcs == 1..MaxDashProcs

IdleDashProc ==
  [kind |-> "none", pc |-> "none", name |-> "none", params |-> "",
   loc |-> "none", op |-> "none", row |-> 0, own |-> FALSE, boot |-> 0, todo |-> <<>>,
   targets |-> {}, fetched |-> [kind |-> "none", feed |-> <<>>],
   queue |-> <<>>, ticks |-> <<>>, patch |-> "none",
   fx |-> {}, err |-> "none"]

\* the service is up on an empty database
InitSched ==
  /\ timers = {}
  /\ objs = <<>>
  /\ dp = [p \in DashProcs |-> IdleDashProc]
  /\ posts = <<>>
  /\ pinSeq = 0
  /\ schedUp = TRUE

\* startStreamingMessage has resolved: the placeholder is posted, the
\* interval armed, and handleMessage enters its try block
Null == <<"null">>

NewStream ==
  [finalized |-> FALSE, textStarted |-> FALSE, spinner |-> TRUE,
   lastFlushedWordCount |-> 0, latestContent |-> Null]

NewFallback ==
  [pc |-> "start", words |-> 0, answer |-> Null, todo |-> <<>>,
   err |-> "none", calls |-> <<>>]

InitStream ==
  /\ stream = NewStream
  /\ remote = << [op |-> "post", by |-> "placeholder",
                  content |-> <<"Thinking">>] >>
  /\ fb = NewFallback

Init ==
  /\ services \in ActiveServiceLists
  /\ InitLoop
  /\ InitChain
  /\ InitTasks
  /\ InitFeed
  /\ InitSched
  /\ InitStream

\* ------------------------------------------------------------ event loop

\* (mutation of SpawnHandleMessage: the call is awaited)
AwaitHandleMessage(st, e) ==
  [st EXCEPT !.hc[e.seq] = @ + 1, !.mp[e.seq] = "pending", !.blocked = TRUE]

\* index.ts 45-52: handleMessage(...) is called and only a .catch is
\* attached; the loop goes on with the promise pending.
SpawnHandleMessage(st, e) ==
  [st EXCEPT !.hc[e.seq] = @ + 1, !.mp[e.seq] = "pending"]

\* (mutation of BroadcastReaction: the for loop stops at the first handler)
FirstReactionOnly(st, e) ==
  LET withRx == {i \in 1..Len(services) : HasOnReaction(services[i])}
      first == {i \in withRx : \A j \in withRx : i <= j}
  IN [st EXCEPT
        !.rc[e.seq] = [i \in SvcIdx |-> IF i \in first THEN @[i] + 1 ELSE @[i]],
        !.rp[e.seq] = [i \in SvcIdx |-> IF i \in first THEN "pending" ELSE @[i]]]

\* index.ts 57-62: every service with an onReaction gets the event; the
\* promise is left pending with a .catch attached.
BroadcastReaction(st, e) ==
  LET withRx == {i \in 1..Len(services) : HasOnReaction(services[i])}
  IN [st EXCEPT
        !.rc[e.seq] = [i \in SvcIdx |-> IF i \in withRx THEN @[i] + 1 ELSE @[i]],
        !.rp[e.seq] = [i \in SvcIdx |-> IF i \in withRx THEN "pending" ELSE @[i]]]

\* index.ts 41-64: the body of the for loop, for one event
\* (mutation of DispatchEvent: the cursor is not advanced)
DispatchEventKeepsCursor(st, e) ==
  LET st2 == IF e.type = "message" THEN SpawnHandleMessage(st, e) ELSE st
  IN IF e.type = "reaction" THEN BroadcastReaction(st2, e) ELSE st2

DispatchEvent(st, e) ==
  LET st1 == [st EXCEPT !.last = e.id]
      st2 == IF e.type = "message" THEN SpawnHandleMessage(st1, e) ELSE st1
  IN IF e.type = "reaction" THEN BroadcastReaction(st2, e) ELSE st2

RECURSIVE ProcessBatch(_, _)
ProcessBatch(batch, st) ==
  IF batch = <<>> \/ st.blocked THEN st
  ELSE ProcessBatch(Tail(batch), DispatchEvent(st, Head(batch)))

\* the events.retrieve call at the top of the while loop
IssuePoll(q, cursor) ==
  /\ loopPc' = "polling"
  /\ pollArgs' = [queue_id |-> q, last_event_id |-> cursor]

\* main up to eventLoop's first registerQueue call (index.ts 85-103, 29);
\* loadConfig, initZulip, initDatabase or loadServices may fail.
Startup ==
  /\ loopPc = "startup"
  /\ \/ /\ loopPc' = "registering"
        /\ regsSince' = regsSince + 1
     \/ /\ loopPc' = "exited"
        /\ UNCHANGED regsSince
  /\ UNCHANGED <<streamVars, taskVars, feedVars, schedVars, services, queueId, lastEventId, pollArgs, gwQueues, gwSeq,
                 events, okPolls, hmCalls, msgPromise, rxCalls, rxPromise,
                 prevPoll, sleepsSince, sleptMs, lastReg, registered, mh>>

\* (mutation of RegisterReturns: only queueId is taken from the result)
RegisterKeepsCursor ==
  /\ loopPc = "registering"
  /\ gwQueues < MaxQueues
  /\ gwQueues' = gwQueues + 1
  /\ queueId' = gwQueues + 1
  /\ UNCHANGED lastEventId
  /\ lastReg' = [queueId |-> gwQueues + 1, lastEventId |-> -1]
  /\ registered' = TRUE
  /\ IssuePoll(gwQueues + 1, lastEventId)
  /\ UNCHANGED <<streamVars, taskVars, feedVars, schedVars, services, gwSeq, events, okPolls, hmCalls, msgPromise,
                 rxCalls, rxPromise, prevPoll, regsSince, sleepsSince, sleptMs,
                 mh>>

\* registerQueue resolves (index.ts 17-23, then 29-39 or 70-71 and 34-39):
\* fresh queue id, cursor -1, and the next poll is issued at once.
RegisterReturns ==
  /\ loopPc = "registering"
  /\ gwQueues < MaxQueues
  /\ gwQueues' = gwQueues + 1
  /\ queueId' = gwQueues + 1
  /\ lastEventId' = -1
  /\ lastReg' = [queueId |-> gwQueues + 1, lastEventId |-> -1]
  /\ registered' = TRUE
  /\ IssuePoll(gwQueues + 1, -1)
  /\ UNCHANGED <<streamVars, taskVars, feedVars, schedVars, services, gwSeq, events, okPolls, hmCalls, msgPromise,
                 rxCalls, rxPromise, prevPoll, regsSince, sleepsSince, sleptMs,
                 mh>>

\* registerQueue rejects: at line 29 and at line 70 (inside the catch block)
\* nothing catches it, eventLoop rejects, main().catch calls process.exit(1).
RegisterFails ==
  /\ loopPc = "registering"
  /\ loopPc' = "exited"
  /\ UNCHANGED <<streamVars, taskVars, feedVars, schedVars, services, queueId, lastEventId, pollArgs, gwQueues, gwSeq,
                 events, okPolls, hmCalls, msgPromise, rxCalls, rxPromise,
                 prevPoll, regsSince, sleepsSince, sleptMs, lastReg, registered,
                 mh>>

\* events.retrieve resolves with a batch (index.ts 36-64): the for loop runs
\* without suspending, then the while loop issues the next poll.
PollReturns ==
  /\ loopPc = "polling"
  /\ gwSeq < MaxEvents
  /\ \E k \in 1..MaxBatch :
       /\ gwSeq + k <= MaxEvents
       /\ \E types \in [1..k -> {"message", "reaction"}] :
            LET batch == [j \in 1..k |->
                            [type |-> types[j], queue |-> pollArgs.queue_id,
                             id |-> pollArgs.last_event_id + j,
                             seq |-> gwSeq + j]]
                st == ProcessBatch(batch,
                        [last |-> lastEventId, hc |-> hmCalls,
                         mp |-> msgPromise, rc |-> rxCalls, rp |-> rxPromise,
                         blocked |-> FALSE])
            IN /\ gwSeq' = gwSeq + k
               /\ okPolls' = okPolls + 1
               /\ events' = [s \in EventIds |->
                               IF s \in (gwSeq + 1)..(gwSeq + k)
                               THEN [type |-> types[s - gwSeq],
                                     queue |-> pollArgs.queue_id,
                                     id |-> pollArgs.last_event_id + (s - gwSeq),
                                     batch |-> okPolls + 1]
                               ELSE events[s]]
               /\ lastEventId' = st.last
               /\ hmCalls' = st.hc
               /\ msgPromise' = st.mp
               /\ rxCalls' = st.rc
               /\ rxPromise' = st.rp
               /\ IF st.blocked
                  THEN loopPc' = "awaitingHandler" /\ UNCHANGED pollArgs
                  ELSE IssuePoll(queueId, st.last)
  /\ prevPoll' = [outcome |-> "ok", queue_id |-> pollArgs.queue_id,
                  last_event_id |-> pollArgs.last_event_id]
  /\ regsSince' = 0
  /\ sleepsSince' = 0
  /\ UNCHANGED <<streamVars, taskVars, feedVars, schedVars, services, queueId, gwQueues, sleptMs, lastReg, registered, mh>>

\* events.retrieve rejects (index.ts 65-77): re-register on an expired
\* queue, else sleep BACKOFF_MS.
PollFails ==
  /\ loopPc = "polling"
  /\ \E errorMsg \in PollErrors :
       /\ IsQueueExpired(errorMsg) => gwQueues < MaxQueues
       /\ prevPoll' = [outcome |-> IF IsQueueExpired(errorMsg)
                                   THEN "expired" ELSE "failed",
                       queue_id |-> pollArgs.queue_id,
                       last_event_id |-> pollArgs.last_event_id]
       /\ IF IsQueueExpired(errorMsg)
          THEN /\ loopPc' = "registering"
               /\ regsSince' = 1
               /\ sleepsSince' = 0
               /\ UNCHANGED sleptMs
          ELSE /\ loopPc' = "sleeping"
               /\ regsSince' = 0
               /\ sleepsSince' = 1
               /\ sleptMs' = BACKOFF_MS
  /\ UNCHANGED <<streamVars, taskVars, feedVars, schedVars, services, queueId, lastEventId, pollArgs, gwQueues, gwSeq,
                 events, okPolls, hmCalls, msgPromise, rxCalls, rxPromise,
                 lastReg, registered, mh>>

\* the backoff timer fires (index.ts 76, 81-83) and the loop polls again
SleepReturns ==
  /\ loopPc = "sleeping"
  /\ IssuePoll(queueId, lastEventId)
  /\ UNCHANGED <<streamVars, taskVars, feedVars, schedVars, services, queueId, lastEventId, gwQueues, gwSeq, events,
                 okPolls, hmCalls, msgPromise, rxCalls, rxPromise, prevPoll,
                 regsSince, sleepsSince, sleptMs, lastReg, registered, mh>>

\* The promise of one handleMessage call settles; a rejection only reaches
\* the .catch of index.ts 50-52, which logs it.
HandleMessageSettles ==
  \E s \in EventIds, outcome \in {"fulfilled", "rejected"} :
    /\ msgPromise[s] = "pending"
    /\ msgPromise' = [msgPromise EXCEPT ![s] = outcome]
    /\ UNCHANGED <<streamVars, taskVars, feedVars, schedVars, services, loopPc, queueId, lastEventId, pollArgs, gwQueues,
                   gwSeq, events, okPolls, hmCalls, rxCalls, rxPromise,
                   prevPoll, regsSince, sleepsSince, sleptMs, lastReg,
                   registered, mh>>

\* The promise of one onReaction call settles; a rejection only reaches the
\* .catch of index.ts 59-61.
OnReactionSettles ==
  \E s \in EventIds, i \in SvcIdx, outcome \in {"fulfilled", "rejected"} :
    /\ rxPromise[s][i] = "pending"
    /\ rxPromise' = [rxPromise EXCEPT ![s][i] = outcome]
    /\ UNCHANGED <<streamVars, taskVars, feedVars, schedVars, services, loopPc, queueId, lastEventId, pollArgs, gwQueues,
                   gwSeq, events, okPolls, hmCalls, msgPromise, rxCalls,
                   prevPoll, regsSince, sleepsSince, sleptMs, lastReg,
                   registered, mh>>

Next ==
  \/ Startup
  \/ RegisterReturns
  \/ RegisterFails
  \/ PollReturns
  \/ PollFails
  \/ SleepReturns
  \/ HandleMessageSettles
  \/ OnReactionSettles

Spec == Init /\ [][Next]_vars

\* ------------------------------------------------- event loop: properties

\* C4: after a poll that failed with BAD_EVENT_QUEUE_ID the loop makes exactly
\* one registerQueue call and no backoff sleep, and the next poll carries the
\* queue id and the cursor that registration returned; after any other poll
\* failure it makes exactly one sleep of BACKOFF_MS and no registerQueue
\* call, and the next poll carries the failed poll's queue id and cursor.
C4_RecoveryPolicy ==
  /\ (loopPc = "registering" /\ registered) =>
        /\ prevPoll.outcome = "expired"
        /\ regsSince = 1 /\ sleepsSince = 0
  /\ loopPc = "sleeping" =>
        /\ prevPoll.outcome = "failed"
        /\ regsSince = 0 /\ sleepsSince = 1 /\ sleptMs = 5000
  /\ (loopPc = "polling" /\ prevPoll.outcome = "expired") =>
        /\ regsSince = 1 /\ sleepsSince = 0
        /\ pollArgs.queue_id = lastReg.queueId
        /\ pollArgs.last_event_id = lastReg.lastEventId
        /\ pollArgs.queue_id # prevPoll.queue_id
  /\ (loopPc = "polling" /\ prevPoll.outcome = "failed") =>
        /\ regsSince = 0 /\ sleepsSince = 1 /\ sleptMs = 5000
        /\ pollArgs.queue_id = prevPoll.queue_id
        /\ pollArgs.last_event_id = prevPoll.last_event_id

\* A poll is in flight after a backoff retry with an advanced cursor, on a
\* queue that was obtained by a re-registration (the second queue).
C4_Witness ==
  /\ loopPc = "polling"
  /\ prevPoll.outcome = "failed"
  /\ prevPoll.last_event_id >= 0
  /\ gwQueues = 2
  /\ pollArgs.queue_id = 2

\* C5 (as claimed): once the first queue is registered the loop never
\* returns or rejects and the process never exits.
C5_LoopNeverTerminates == registered => loopPc # "exited"

\* C6: a successful poll dispatches every event of its batch and issues the
\* next poll in the same step, whatever promises of earlier or of these
\* handlers are still pending; the loop is never suspended on a handler.
C6_LoopNeverAwaitsHandlers ==
  [][ (okPolls' > okPolls) =>
        /\ loopPc' = "polling"
        /\ pollArgs'.last_event_id = pollArgs.last_event_id + (gwSeq' - gwSeq)
        /\ \A s \in EventIds : (gwSeq < s /\ s <= gwSeq') =>
             /\ events'[s].type = "message" =>
                  hmCalls'[s] = 1 /\ msgPromise'[s] = "pending"
             /\ events'[s].type = "reaction" =>
                  \A i \in SvcIdx :
                    (i <= Len(services) /\ HasOnReaction(services[i])) =>
                      rxCalls'[s][i] = 1
        /\ \A s \in EventIds : msgPromise[s] = "pending" =>
             msgPromise'[s] = "pending" ]_vars

\* The handler of an event is still pending while an event of a later batch
\* has been dispatched and the next poll is in flight.
C6_Witness ==
  /\ loopPc = "polling"
  /\ \E s1, s2 \in EventIds :
       /\ events[s1].type = "message" /\ msgPromise[s1] = "pending"
       /\ events[s2].type # "none" /\ events[s2].batch > events[s1].batch
       /\ (events[s2].type = "message" => hmCalls[s2] = 1)

\* C7: every reaction event received has been handed exactly once to the
\* onReaction of every active service that has one (and to nothing else), in
\* every state, also when an onReaction promise has been rejected.
C7_ReactionBroadcast ==
  \A s \in EventIds : \A i \in SvcIdx :
    rxCalls[s][i] =
      IF /\ events[s].type = "reaction"
         /\ i <= Len(services)
         /\ HasOnReaction(services[i])
      THEN 1 ELSE 0

\* The first service's reaction handler was rejected, the second one was
\* still called, and a reaction of a later batch reached both services.
C7_Witness ==
  /\ loopPc = "polling"
  /\ Len(services) = 2
  /\ \E s1, s2 \in EventIds :
       /\ events[s1].type = "reaction" /\ events[s2].type = "reaction"
       /\ events[s2].batch > events[s1].batch
       /\ rxPromise[s1][1] = "rejected"
       /\ rxCalls[s1][2] = 1
       /\ rxCalls[s2][1] = 1 /\ rxCalls[s2][2] = 1

\* -------------------------------------------------- dispatch chain (bot.ts)

BotEmail == "bot@example.com"

\* Message content as the tokens htmlToText tells apart: a user-mention
\* span, a <br>, a word of text.
Contents == { <<"mention">>, <<"mention", "br">>, <<"mention", "word">> }

MessageEvents ==
  [type : {"stream", "private"},
   sender_email : {BotEmail, "alice@example.com"},
   flags : {{}, {"read"}, {"mentioned"}, {"mentioned", "read"}},
   content : Contents]

RECURSIVE TrimStart(_)
TrimStart(text) ==
  IF text # <<>> /\ Head(text) = "\n" THEN TrimStart(Tail(text)) ELSE text

RECURSIVE TrimEnd(_)
TrimEnd(text) ==
  IF text # <<>> /\ text[Len(text)] = "\n"
  THEN TrimEnd(SubSeq(text, 1, Len(text) - 1))
  ELSE text

\* String.prototype.trim
Trim(text) == TrimEnd(TrimStart(text))

\* html-to-text.ts: mention spans are removed, <br> becomes a newline, the
\* result is trimmed.
htmlToText(html) ==
  LET noMentions == SelectSeq(html, LAMBDA t : t # "mention")
      newlines == [i \in 1..Len(noMentions) |->
                     IF noMentions[i] = "br" THEN "\n" ELSE noMentions[i]]
  IN Trim(newlines)

\* (mutation of Eligible: the 'mentioned' flag is not looked at)
EligibleWithoutMentionCheck(ev) ==
  /\ ev.type = "stream"
  /\ ev.sender_email # BotEmail

\* bot.ts handleMessage: the three early returns
Eligible(ev) ==
  /\ ev.type = "stream"
  /\ ev.sender_email # BotEmail
  /\ "mentioned" \in ev.flags

\* startStreamingMessage is called: its messages.send posts the placeholder
StartStreaming(h) ==
  [h EXCEPT !.pc = "awaitPlaceholder", !.svc = 0, !.placeholders = @ + 1]

\* the for loop over services from index `from` on: the next service with an
\* onMessage is called and awaited; with none left the fallback starts
ContinueChain(h, from) ==
  LET rest == {j \in from..Len(services) : HasOnMessage(services[j])}
  IN IF rest # {}
     THEN LET j == CHOOSE j \in rest : \A k \in rest : j <= k
          IN [h EXCEPT !.pc = "awaitSvc", !.svc = j, !.calls = Append(@, j)]
     ELSE StartStreaming(h)

\* (mutation of AfterOnMessage: `if (handled) return` is missing)
AfterOnMessageNoReturn(h, outcome) ==
  CASE outcome = "true" ->
         ContinueChain([h EXCEPT !.claimedBy = h.svc], h.svc + 1)
    [] outcome = "false" -> ContinueChain(h, h.svc + 1)
    [] outcome = "throw" ->
         ContinueChain([h EXCEPT !.threw = @ \cup {h.svc}], h.svc + 1)

\* (mutation of AfterOnMessage: no try/catch around svc.onMessage)
AfterOnMessageUncaught(h, outcome) ==
  CASE outcome = "true" ->
         [h EXCEPT !.pc = "returned", !.claimedBy = h.svc, !.svc = 0]
    [] outcome = "false" -> ContinueChain(h, h.svc + 1)
    [] outcome = "throw" ->
         [h EXCEPT !.pc = "rejected", !.threw = @ \cup {h.svc}, !.svc = 0]

\* the awaited svc.onMessage settles: true returns, false and a throw (caught
\* and logged) go on with the next service
AfterOnMessage(h, outcome) ==
  CASE outcome = "true" ->
         [h EXCEPT !.pc = "returned", !.claimedBy = h.svc, !.svc = 0]
    [] outcome = "false" -> ContinueChain(h, h.svc + 1)
    [] outcome = "throw" ->
         ContinueChain([h EXCEPT !.threw = @ \cup {h.svc}], h.svc + 1)

\* the catch block of handleMessage: streaming.cancel() is awaited first
CatchError(h) == [h EXCEPT !.pc = "awaitCancelErr"]

\* handleMessage is called with a message event and runs to its first await
HandleMessage ==
  \E m \in Mentions, ev \in MessageEvents :
    /\ mh[m].pc = "none"
    /\ \A k \in Mentions : k < m => mh[k].pc # "none"
    /\ mh' = [mh EXCEPT ![m] =
                IF Eligible(ev)
                THEN ContinueChain([IdleHandler EXCEPT !.ev = ev], 1)
                ELSE [IdleHandler EXCEPT !.ev = ev, !.pc = "returned"]]
    /\ UNCHANGED <<streamVars, taskVars, feedVars, schedVars, services, loopVars>>

OnMessageSettles ==
  \E m \in Mentions, outcome \in {"true", "false", "throw"} :
    /\ mh[m].pc = "awaitSvc"
    /\ mh' = [mh EXCEPT ![m] = AfterOnMessage(mh[m], outcome)]
    /\ UNCHANGED <<streamVars, taskVars, feedVars, schedVars, services, loopVars>>

\* the placeholder send settles: a rejection is outside the try block and
\* rejects handleMessage; else the question is extracted and either the
\* empty-question branch or the context fetch follows
PlaceholderSettles ==
  \E m \in Mentions, ok \in BOOLEAN :
    /\ mh[m].pc = "awaitPlaceholder"
    /\ mh' = [mh EXCEPT ![m] =
                IF ~ok THEN [@ EXCEPT !.pc = "rejected"]
                ELSE IF htmlToText(@.ev.content) = <<>>
                THEN [@ EXCEPT !.pc = "awaitCancelEmpty",
                               !.facts = @ \cup {"placeholderPosted"}]
                ELSE [@ EXCEPT !.pc = "awaitFetch",
                               !.facts = @ \cup {"placeholderPosted"}]]
    /\ UNCHANGED <<streamVars, taskVars, feedVars, schedVars, services, loopVars>>

\* streaming.cancel() of the empty-question branch settles (its own .catch
\* swallows a failed delete); the hint message is sent
CancelEmptySettles ==
  \E m \in Mentions :
    /\ mh[m].pc = "awaitCancelEmpty"
    /\ mh' = [mh EXCEPT ![m].pc = "awaitSendEmpty"]
    /\ UNCHANGED <<streamVars, taskVars, feedVars, schedVars, services, loopVars>>

SendEmptySettles ==
  \E m \in Mentions, ok \in BOOLEAN :
    /\ mh[m].pc = "awaitSendEmpty"
    /\ mh' = [mh EXCEPT ![m] =
                IF ok THEN [@ EXCEPT !.pc = "returned"] ELSE CatchError(@)]
    /\ UNCHANGED <<streamVars, taskVars, feedVars, schedVars, services, loopVars>>

\* fetchTopicMessages settles; on success askClaude is called
FetchSettles ==
  \E m \in Mentions, ok \in BOOLEAN :
    /\ mh[m].pc = "awaitFetch"
    /\ mh' = [mh EXCEPT ![m] =
                IF ok
                THEN [@ EXCEPT !.pc = "awaitClaude", !.engine = @ + 1,
                               !.facts = @ \cup {"contextFetched"}]
                ELSE CatchError(@)]
    /\ UNCHANGED <<streamVars, taskVars, feedVars, schedVars, services, loopVars>>

\* askClaude settles; on success streaming.finalize(answer) is awaited
ClaudeSettles ==
  \E m \in Mentions, ok \in BOOLEAN :
    /\ mh[m].pc = "awaitClaude"
    /\ mh' = [mh EXCEPT ![m] =
                IF ok THEN [@ EXCEPT !.pc = "awaitFinalize"] ELSE CatchError(@)]
    /\ UNCHANGED <<streamVars, taskVars, feedVars, schedVars, services, loopVars>>

\* finalize settles (a send of a further chunk can reject)
FinalizeSettles ==
  \E m \in Mentions, ok \in BOOLEAN :
    /\ mh[m].pc = "awaitFinalize"
    /\ mh' = [mh EXCEPT ![m] =
                IF ok THEN [@ EXCEPT !.pc = "returned"] ELSE CatchError(@)]
    /\ UNCHANGED <<streamVars, taskVars, feedVars, schedVars, services, loopVars>>

\* streaming.cancel() of the catch block settles; the apology is sent
CancelErrSettles ==
  \E m \in Mentions :
    /\ mh[m].pc = "awaitCancelErr"
    /\ mh' = [mh EXCEPT ![m].pc = "awaitSendErr"]
    /\ UNCHANGED <<streamVars, taskVars, feedVars, schedVars, services, loopVars>>

\* the apology send settles; its .catch swallows a failure
SendErrSettles ==
  \E m \in Mentions :
    /\ mh[m].pc = "awaitSendErr"
    /\ mh' = [mh EXCEPT ![m].pc = "returned"]
    /\ UNCHANGED <<streamVars, taskVars, feedVars, schedVars, services, loopVars>>

NextChain ==
  \/ HandleMessage
  \/ OnMessageSettles
  \/ PlaceholderSettles
  \/ CancelEmptySettles
  \/ SendEmptySettles
  \/ FetchSettles
  \/ ClaudeSettles
  \/ FinalizeSettles
  \/ CancelErrSettles
  \/ SendErrSettles

SpecChain == Init /\ [][NextChain]_vars

\* --------------------------------------------- dispatch chain: properties

OnMessageIndices == {i \in 1..Len(services) : HasOnMessage(services[i])}

Finished(h) == h.pc \in {"returned", "rejected"}

\* C1: a message event that is not a stream message, or is sent by the bot,
\* or lacks the 'mentioned' flag reaches no onMessage handler, posts no
\* placeholder and makes no answering-engine call.
C1_IneligibleIgnored ==
  \A m \in Mentions :
    (/\ mh[m].pc # "none"
     /\ \/ mh[m].ev.type # "stream"
        \/ mh[m].ev.sender_email = "bot@example.com"
        \/ "mentioned" \notin mh[m].ev.flags) =>
      /\ mh[m].calls = <<>>
      /\ mh[m].placeholders = 0
      /\ mh[m].engine = 0
      /\ mh[m].pc = "returned"

\* A stream message from another user without the 'mentioned' flag (but
\* with other flags) has been handled.
C1_Witness ==
  \E m \in Mentions :
    /\ mh[m].pc = "returned"
    /\ mh[m].ev.type = "stream"
    /\ mh[m].ev.sender_email # "bot@example.com"
    /\ mh[m].ev.flags = {"read"}

\* C2: the onMessage handlers called for a mention are the first ones of the
\* services list, in list order, one at a time; once one has returned true
\* it is the last one called, and no placeholder is posted and no
\* answering-engine call is made for that message.
C2_FirstMatchWins ==
  \A m \in Mentions :
    LET h == mh[m] IN
    /\ \A k \in 1..Len(h.calls) :
         /\ h.calls[k] \in OnMessageIndices
         /\ Cardinality({i \in OnMessageIndices : i < h.calls[k]}) = k - 1
    /\ h.pc = "awaitSvc" => (h.calls # <<>> /\ h.svc = h.calls[Len(h.calls)])
    /\ h.claimedBy # 0 =>
         /\ h.pc = "returned"
         /\ h.calls # <<>> /\ h.calls[Len(h.calls)] = h.claimedBy
         /\ h.placeholders = 0
         /\ h.engine = 0

\* With two services active, the first one claimed a mention.
C2_Witness ==
  /\ Len(services) = 2
  /\ \E m \in Mentions :
       /\ mh[m].claimedBy = 1
       /\ mh[m].calls = <<1>>
       /\ mh[m].pc = "returned"

\* C3 (as claimed): when no handler returns true the message is passed
\* exactly once to the streaming composer and to the answering engine
\* (read here for the messages whose placeholder was posted).
C3_FallbackAlwaysAsks ==
  \A m \in Mentions :
    (/\ Finished(mh[m]) /\ Eligible(mh[m].ev) /\ mh[m].claimedBy = 0
     /\ "placeholderPosted" \in mh[m].facts) =>
      /\ mh[m].placeholders = 1
      /\ mh[m].engine = 1

\* C3 (amended): a handler that throws does not claim the message and the
\* chain goes on with the next handler (or the fallback after the last one);
\* when no handler returns true, startStreamingMessage is called exactly once
\* and askClaude at most once: exactly once if the placeholder was posted,
\* the question left by htmlToText is not empty and the context fetch
\* succeeded, and not at all otherwise.
C3_ThrowContinuesThenFallback ==
  \A m \in Mentions :
    LET h == mh[m] IN
    /\ \A i \in h.threw :
         /\ h.claimedBy # i
         /\ \/ \E k \in 1..Len(h.calls) : h.calls[k] > i
            \/ ({j \in OnMessageIndices : j > i} = {} /\ h.placeholders = 1)
    /\ h.placeholders <= 1 /\ h.engine <= 1
    /\ (Eligible(h.ev) /\ h.claimedBy = 0 /\ h.pc # "awaitSvc") =>
         /\ h.calls = [k \in 1..Cardinality(OnMessageIndices) |->
                         CHOOSE i \in OnMessageIndices :
                           Cardinality({j \in OnMessageIndices : j < i}) = k - 1]
         /\ h.placeholders = 1
    /\ (Finished(h) /\ Eligible(h.ev) /\ h.claimedBy = 0) =>
         (h.engine = 1 <=>
            /\ "placeholderPosted" \in h.facts
            /\ htmlToText(h.ev.content) # <<>>
            /\ "contextFetched" \in h.facts)

\* Both services threw on a mention with a question, and the message went
\* through the placeholder and the answering engine to the end.
C3_Witness ==
  /\ Len(services) = 2
  /\ \E m \in Mentions :
       /\ mh[m].threw = {1, 2}
       /\ mh[m].calls = <<1, 2>>
       /\ mh[m].placeholders = 1
       /\ mh[m].engine = 1
       /\ mh[m].pc = "returned"

\* --------------------------------------------------------- tasks service

\* config.taskEmoji (default of loadConfig); the completion emoji is the
\* literal "check" of onReaction
TaskEmoji == "clipboard"

BotUser == "bot"

Humans == {"alice", "bob"}

\* what parseMentions can return for a promote command: nobody or one user
MentionLists == {<<>>, <<"bob">>}

TasksActive == \E i \in 1..Len(services) : services[i] = "tasks"

\* the stream messages that exist: the initial ones and the cards posted
StreamMsgs == 1..(MaxSourceMsgs + cards)

\* isTasksChannel of the channel a message is in: message 1 sits in an
\* ordinary channel, the others (cards included) in a tasks channel
InTasksChannel(m) == m >= 2

getTaskBySourceMsgId(tbl, id) ==
  {i \in DOMAIN tbl : tbl[i].source_msg_id = id}

\* (mutation of getTaskByTaskMsgId: the source message counts as the card)
getTaskByAnyMsgId(tbl, id) ==
  {i \in DOMAIN tbl : tbl[i].task_msg_id = id \/ tbl[i].source_msg_id = id}

getTaskByTaskMsgId(tbl, id) ==
  {i \in DOMAIN tbl : tbl[i].task_msg_id = id}

\* (mutation of SourceMsgIdUnique: the column is not declared UNIQUE)
SourceMsgIdNotUnique(tbl, id) == TRUE

\* source_msg_id INTEGER NOT NULL UNIQUE: the INSERT of createTask throws
\* when a row with that source message exists
SourceMsgIdUnique(tbl, id) == getTaskBySourceMsgId(tbl, id) = {}

createTask(tbl, id, creatorName) ==
  Append(tbl, [source_msg_id |-> id, creator_name |-> creatorName,
               status |-> "open", completed_by |-> "none",
               completed_at |-> "NULL",
               task_msg_id |-> 0])

getAssignees(tbl, taskId) ==
  SelectSeq(tbl, LAMBDA r : r.task_id = taskId)

\* (mutation of AssigneeUnique: the table has no UNIQUE constraint)
AssigneeNotUnique(tbl, taskId, userId) == TRUE

\* UNIQUE(task_id, user_id): the INSERT OR IGNORE of addAssignees skips a
\* user the task already has
AssigneeUnique(tbl, taskId, userId) ==
  \A i \in 1..Len(tbl) :
    ~(tbl[i].task_id = taskId /\ tbl[i].user_id = userId)

\* addAssignees: one INSERT OR IGNORE per mentioned user, in order
RECURSIVE addAssignees(_, _, _)
addAssignees(tbl, taskId, users) ==
  IF users = <<>> THEN tbl
  ELSE addAssignees(
         IF AssigneeUnique(tbl, taskId, Head(users))
         THEN Append(tbl, [task_id |-> taskId, user_name |-> Head(users),
                           user_id |-> Head(users)])
         ELSE tbl,
         taskId, Tail(users))

\* removeAssignees: DELETE ... WHERE task_id = ? AND user_id IN (...)
removeAssignees(tbl, taskId, userIds) ==
  IF userIds = <<>> THEN tbl
  ELSE SelectSeq(tbl, LAMBDA r :
         ~(/\ r.task_id = taskId
           /\ \E i \in 1..Len(userIds) : userIds[i] = r.user_id))

updateTaskMsgRef(tbl, taskId, msgId) ==
  [tbl EXCEPT ![taskId].task_msg_id = msgId]

completeTask(tbl, taskId, completedBy) ==
  [tbl EXCEPT ![taskId].status = "done", ![taskId].completed_by = completedBy,
              ![taskId].completed_at = "now"]

\* (mutation of reopenTask: the completion metadata is not cleared)
reopenTaskKeepsMetadata(tbl, taskId) ==
  [tbl EXCEPT ![taskId].status = "open"]

reopenTask(tbl, taskId) ==
  [tbl EXCEPT ![taskId].status = "open", ![taskId].completed_by = "none",
              ![taskId].completed_at = "NULL"]

\* createTask, addAssignees and the send of the card, which run without a
\* suspension in both promote paths; a UNIQUE violation rejects the handler
InsertAndPost(h, hr, who) ==
  IF SourceMsgIdUnique(tasks, hr.msg)
  THEN /\ tasks' = createTask(tasks, hr.msg, hr.creator)
       /\ assignees' = addAssignees(assignees, Len(tasks) + 1, who)
       /\ th' = [th EXCEPT ![h] =
            [hr EXCEPT !.pc = "awaitCard", !.taskId = Len(tasks) + 1,
                       !.fx = @ \cup {"task_row", "card_send"}
                                \cup (IF who = <<>> THEN {}
                                      ELSE {"assignee_row"})]]
  ELSE /\ th' = [th EXCEPT ![h] =
            [hr EXCEPT !.pc = "rejected",
                       !.err = "SQLITE_CONSTRAINT_UNIQUE"]]
       /\ UNCHANGED <<tasks, assignees>>

\* the destination channel: the source channel when it is a tasks
\* channel, else the awaited resolveTasksChannel
ResolveThenInsert(h, hr, who) ==
  IF InTasksChannel(hr.msg)
  THEN InsertAndPost(h, hr, who)
  ELSE /\ th' = [th EXCEPT ![h] = [hr EXCEPT !.pc = "awaitChannel"]]
       /\ UNCHANGED <<tasks, assignees>>

\* handleTaskCreation on a duplicate: tells the channel and returns
CmdDuplicate(hr) ==
  [hr EXCEPT !.pc = "awaitNotice", !.fx = @ \cup {"notice_send"}]

\* (mutation of RxDuplicate: the reaction path answers like the command)
RxDuplicateNotifies(hr) ==
  [hr EXCEPT !.pc = "awaitNotice", !.fx = @ \cup {"notice_send"}]

\* onReaction on a duplicate: returns silently
RxDuplicate(hr) == [hr EXCEPT !.pc = "returned", !.exit = "duplicate"]

\* tasks.onMessage on a "task" command up to the await of the retrieve
TaskCommand ==
  \E h \in TaskHandlers, mentions \in MentionLists :
    /\ TasksActive
    /\ th[h].kind = "none"
    /\ \A k \in 1..(h - 1) : th[k].kind # "none"
    /\ th' = [th EXCEPT ![h] =
         [IdleTaskHandler EXCEPT !.kind = "command", !.pc = "cmdFetch",
                                 !.user = "alice", !.creator = "alice",
                                 !.mentions = mentions]]
    /\ UNCHANGED <<tasks, assignees, cards>>
    /\ UNCHANGED <<streamVars, services, loopVars, mh, feedVars, schedVars>>

\* the retrieve settles: no preceding message, a duplicate, or the promote
CmdFetchSettles ==
  \E h \in TaskHandlers, outcome \in {"reject", "none", "found"} :
    /\ th[h].pc = "cmdFetch"
    /\ \/ /\ outcome = "reject"
          /\ th' = [th EXCEPT ![h].pc = "rejected", ![h].err = "gateway"]
          /\ UNCHANGED <<tasks, assignees>>
       \/ /\ outcome = "none"
          /\ th' = [th EXCEPT ![h].pc = "awaitNotice",
                              ![h].fx = @ \cup {"notice_send"}]
          /\ UNCHANGED <<tasks, assignees>>
       \/ /\ outcome = "found"
          /\ \E target \in StreamMsgs :
               LET hr == [th[h] EXCEPT
                            !.msg = target,
                            !.hadTask =
                              getTaskBySourceMsgId(tasks, target) # {}]
               IN IF getTaskBySourceMsgId(tasks, target) # {}
                  THEN /\ th' = [th EXCEPT ![h] = CmdDuplicate(hr)]
                       /\ UNCHANGED <<tasks, assignees>>
                  ELSE ResolveThenInsert(h, hr, hr.mentions)
    /\ UNCHANGED cards
    /\ UNCHANGED <<streamVars, services, loopVars, mh, feedVars, schedVars>>

\* the send of "no message above" or "a task already exists" settles
NoticeSettles ==
  \E h \in TaskHandlers, ok \in BOOLEAN :
    /\ th[h].pc = "awaitNotice"
    /\ th' = [th EXCEPT ![h].pc = IF ok THEN "returned" ELSE "rejected",
                        ![h].err = IF ok THEN "none" ELSE "gateway"]
    /\ UNCHANGED <<tasks, assignees, cards>>
    /\ UNCHANGED <<streamVars, services, loopVars, mh, feedVars, schedVars>>

\* resolveTasksChannel settles; the insert follows in the same step
ChannelSettles ==
  \E h \in TaskHandlers, ok \in BOOLEAN :
    /\ th[h].pc = "awaitChannel"
    /\ IF ok
       THEN InsertAndPost(h, th[h],
                          IF th[h].kind = "command" THEN th[h].mentions
                          ELSE <<th[h].user>>)
       ELSE /\ th' = [th EXCEPT ![h].pc = "rejected", ![h].err = "gateway"]
            /\ UNCHANGED <<tasks, assignees>>
    /\ UNCHANGED cards
    /\ UNCHANGED <<streamVars, services, loopVars, mh, feedVars, schedVars>>

\* the send of the card settles: updateTaskMsgRef, then the command path
\* reacts on the source message and the reaction path confirms
CardSettles ==
  \E h \in TaskHandlers, ok \in BOOLEAN :
    /\ th[h].pc = "awaitCard"
    /\ IF ok
       THEN /\ cards' = cards + 1
            /\ tasks' = updateTaskMsgRef(tasks, th[h].taskId,
                                         MaxSourceMsgs + cards + 1)
            /\ th' = [th EXCEPT ![h] =
                 IF th[h].kind = "command"
                 THEN [th[h] EXCEPT !.pc = "awaitReact",
                                    !.fx = @ \cup {"card_ref", "react_add"}]
                 ELSE [th[h] EXCEPT !.pc = "awaitConfirm",
                                    !.fx = @ \cup {"card_ref",
                                                   "confirm_send"}]]
       ELSE /\ th' = [th EXCEPT ![h].pc = "rejected", ![h].err = "gateway"]
            /\ UNCHANGED <<tasks, cards>>
    /\ UNCHANGED assignees
    /\ UNCHANGED <<streamVars, services, loopVars, mh, feedVars, schedVars>>

\* reactions.add settles (its rejection is swallowed); the confirmation
\* is sent
ReactSettles ==
  \E h \in TaskHandlers :
    /\ th[h].pc = "awaitReact"
    /\ th' = [th EXCEPT ![h].pc = "awaitConfirm",
                        ![h].fx = @ \cup {"confirm_send"}]
    /\ UNCHANGED <<tasks, assignees, cards>>
    /\ UNCHANGED <<streamVars, services, loopVars, mh, feedVars, schedVars>>

ConfirmSettles ==
  \E h \in TaskHandlers, ok \in BOOLEAN :
    /\ th[h].pc = "awaitConfirm"
    /\ th' = [th EXCEPT ![h].pc = IF ok THEN "returned" ELSE "rejected",
                        ![h].err = IF ok THEN "none" ELSE "gateway"]
    /\ UNCHANGED <<tasks, assignees, cards>>
    /\ UNCHANGED <<streamVars, services, loopVars, mh, feedVars, schedVars>>

\* renderTaskCard, as far as the card can change: the status line (with the
\* completer of a done task) and the line of the assignees
renderTaskCard(task, asg) ==
  [status |-> task.status,
   by |-> IF task.status = "done" THEN task.completed_by ELSE "none",
   assigned |-> asg]

\* the number the next PATCH of a card gets: edits are numbered in the
\* order they are issued
NextEdit ==
  1 + Cardinality({h \in TaskHandlers : th[h].edit # 0})

\* (mutation of UpdatedTask: the row read before the await is rendered)
UpdatedTaskStale(task, op, reactorName) == task

\* onReaction, the object handed to syncTaskMessage: the row read before
\* the await with the status, completer and time of this event
UpdatedTask(task, op, reactorName) ==
  [task EXCEPT !.status = IF op = "add" THEN "done" ELSE "open",
               !.completed_by = IF op = "add" THEN reactorName ELSE "none",
               !.completed_at = IF op = "add" THEN "now" ELSE "NULL"]

\* the reaction events delivered to the service: the bot's own promote
\* marker, and a user adding or removing the promote or the done emoji
ReactionEvents ==
  {[op |-> "add", emoji_name |-> TaskEmoji, user_id |-> BotUser]} \cup
  [op : {"add", "remove"}, emoji_name : {TaskEmoji, "check"},
   user_id : {"alice"}]

\* tasks.onReaction up to its first await: the bot's own reactions are
\* dropped, "check" on a card toggles completion, an added promote emoji
\* fetches the message
TaskReaction ==
  \E h \in TaskHandlers, e \in ReactionEvents, m \in StreamMsgs :
    /\ TasksActive
    /\ th[h].kind = "none"
    /\ \A k \in 1..(h - 1) : th[k].kind # "none"
    /\ LET op == e.op
           emoji == e.emoji_name
           hr == [IdleTaskHandler EXCEPT
                    !.kind = "reaction", !.op = op, !.emoji = emoji,
                    !.user = e.user_id, !.msg = m,
                    !.hadTask = getTaskBySourceMsgId(tasks, m) # {}]
       IN th' = [th EXCEPT ![h] =
            IF e.user_id = BotUser THEN [hr EXCEPT !.pc = "returned"]
            ELSE IF emoji = "check"
            THEN IF getTaskByTaskMsgId(tasks, m) = {}
                 THEN [hr EXCEPT !.pc = "returned"]
                 ELSE [hr EXCEPT
                         !.pc = "ckGetUser",
                         !.taskId =
                           CHOOSE i \in getTaskByTaskMsgId(tasks, m) : TRUE,
                         !.snap =
                           tasks[CHOOSE i \in getTaskByTaskMsgId(tasks, m) :
                                   TRUE]]
            ELSE IF op # "add" THEN [hr EXCEPT !.pc = "returned"]
            ELSE IF emoji # TaskEmoji THEN [hr EXCEPT !.pc = "returned"]
            ELSE [hr EXCEPT !.pc = "rxGetMsg"]]
    /\ UNCHANGED <<tasks, assignees, cards>>
    /\ UNCHANGED <<streamVars, services, loopVars, mh, feedVars, schedVars>>

\* GET /messages/{id} settles: no stream message, a duplicate, or on to
\* the lookup of the reactor
RxGetMsgSettles ==
  \E h \in TaskHandlers, outcome \in {"reject", "missing", "stream"} :
    /\ th[h].pc = "rxGetMsg"
    /\ th' = [th EXCEPT ![h] =
         IF outcome = "reject"
         THEN [th[h] EXCEPT !.pc = "rejected", !.err = "gateway"]
         ELSE IF outcome = "missing"
         THEN [th[h] EXCEPT !.pc = "returned", !.exit = "no message"]
         ELSE IF getTaskBySourceMsgId(tasks, th[h].msg) # {}
         THEN RxDuplicate(th[h])
         ELSE [th[h] EXCEPT !.pc = "rxGetUser"]]
    /\ UNCHANGED <<tasks, assignees, cards>>
    /\ UNCHANGED <<streamVars, services, loopVars, mh, feedVars, schedVars>>

\* GET /users/{id} settles: the reactor is creator and sole assignee
RxGetUserSettles ==
  \E h \in TaskHandlers, outcome \in {"reject", "unknown", "user"} :
    /\ th[h].pc = "rxGetUser"
    /\ IF outcome = "reject"
       THEN /\ th' = [th EXCEPT ![h].pc = "rejected", ![h].err = "gateway"]
            /\ UNCHANGED <<tasks, assignees>>
       ELSE ResolveThenInsert(h,
              [th[h] EXCEPT !.creator = IF outcome = "user" THEN th[h].user
                                        ELSE "Unknown"],
              <<th[h].user>>)
    /\ UNCHANGED cards
    /\ UNCHANGED <<streamVars, services, loopVars, mh, feedVars, schedVars>>

\* completion branch: GET /users/{id} settles, the status is written and
\* the card is re-rendered
CkGetUserSettles ==
  \E h \in TaskHandlers, outcome \in {"reject", "unknown", "user"} :
    /\ th[h].pc = "ckGetUser"
    /\ IF outcome = "reject"
       THEN /\ th' = [th EXCEPT ![h].pc = "rejected", ![h].err = "gateway"]
            /\ UNCHANGED tasks
       ELSE /\ tasks' =
                 IF th[h].op = "add"
                 THEN completeTask(tasks, th[h].taskId,
                                   IF outcome = "user" THEN th[h].user
                                   ELSE "Unknown")
                 ELSE reopenTask(tasks, th[h].taskId)
            /\ th' = [th EXCEPT
                 ![h].pc = "ckSync",
                 ![h].fx = @ \cup {"status", "card_edit"},
                 ![h].edit = NextEdit,
                 ![h].rendered =
                   renderTaskCard(
                     UpdatedTask(th[h].snap, th[h].op,
                                 IF outcome = "user" THEN th[h].user
                                 ELSE "Unknown"),
                     getAssignees(assignees, th[h].taskId))]
    /\ UNCHANGED <<assignees, cards>>
    /\ UNCHANGED <<streamVars, services, loopVars, mh, feedVars, schedVars>>

\* the PATCH of syncTaskMessage settles (its rejection is swallowed)
CkSyncSettles ==
  \E h \in TaskHandlers :
    /\ th[h].pc = "ckSync"
    /\ th' = [th EXCEPT ![h].pc = "returned"]
    /\ UNCHANGED <<tasks, assignees, cards>>
    /\ UNCHANGED <<streamVars, services, loopVars, mh, feedVars, schedVars>>

NextTasks ==
  \/ TaskCommand
  \/ CmdFetchSettles
  \/ NoticeSettles
  \/ ChannelSettles
  \/ CardSettles
  \/ ReactSettles
  \/ ConfirmSettles
  \/ TaskReaction
  \/ RxGetMsgSettles
  \/ RxGetUserSettles
  \/ CkGetUserSettles
  \/ CkSyncSettles

\* every service enabled, the default of loadServices
InitAllServices == Init /\ services = Registry

SpecTasks == InitAllServices /\ [][NextTasks]_vars

\* ---------------------------------------------- tasks service: properties

\* C8: in every reachable state no two rows of tasks have the same
\* source_msg_id, whatever the interleaving of promote commands and
\* promote reactions on one source message, overlapping ones included.
C8_OneTaskPerSource ==
  \A i, j \in DOMAIN tasks :
    tasks[i].source_msg_id = tasks[j].source_msg_id => i = j

\* two handlers passed the duplicate check for the same message before
\* either inserted; one inserted, the INSERT of the other threw
C8_Witness ==
  \E h1, h2 \in Promotes :
    /\ h1 # h2
    /\ th[h1].msg = th[h2].msg
    /\ th[h1].taskId # 0
    /\ ~th[h1].hadTask /\ ~th[h2].hadTask
    /\ th[h2].pc = "rejected"
    /\ th[h2].err = "SQLITE_CONSTRAINT_UNIQUE"
    /\ {th[h1].kind, th[h2].kind} = {"command", "reaction"}

\* C9: the handler of a promote-emoji reaction on a message that had a
\* Task when the reaction arrived writes no task or assignee row, sends
\* and edits no card, and sends no confirmation or other message.
PromoteReactionOnPromoted(hr) ==
  /\ hr.kind = "reaction"
  /\ hr.emoji = TaskEmoji
  /\ hr.hadTask

C9_PromotedReactionNoOp ==
  \A h \in Promotes :
    PromoteReactionOnPromoted(th[h]) =>
      /\ th[h].fx = {}
      /\ th[h].taskId = 0
      /\ th[h].pc \in {"rxGetMsg", "returned", "rejected"}

\* such a reaction, from a human, ran through its duplicate check
C9_Witness ==
  \E h \in Promotes :
    /\ PromoteReactionOnPromoted(th[h])
    /\ th[h].user # BotUser
    /\ th[h].pc = "returned"
    /\ th[h].exit = "duplicate"
    /\ \E i \in DOMAIN tasks :
         /\ tasks[i].source_msg_id = th[h].msg
         /\ tasks[i].task_msg_id # 0

\* ------------------------------------- tasks service: completion toggling

\* a Task promoted earlier whose card has been posted, and no handler
\* running; the only message outside a tasks channel is the promoted one,
\* so no promote of this specification resolves a channel
InitToggle ==
  /\ services = Registry
  /\ InitLoop
  /\ InitChain
  /\ InitStream
  /\ InitFeed
  /\ InitSched
  /\ tasks = updateTaskMsgRef(createTask(<<>>, 1, "alice"), 1,
                              MaxSourceMsgs + 1)
  /\ assignees = <<>>
  /\ cards = 1
  /\ th = [h \in 1..MaxToggles |-> IdleTaskHandler]

TaskHandlerIdle(hr) == hr.pc \in {"none", "returned", "rejected"}

\* a reaction event whose handler starts when the handlers of the earlier
\* events have finished
SequentialReaction ==
  /\ \A h \in TaskHandlers : TaskHandlerIdle(th[h])
  /\ TaskReaction

NextToggle ==
  \/ SequentialReaction
  \/ RxGetMsgSettles
  \/ RxGetUserSettles
  \/ CardSettles
  \/ ConfirmSettles
  \/ CkGetUserSettles
  \/ CkSyncSettles

SpecToggle == InitToggle /\ [][NextToggle]_vars

\* the handler ran the completion branch up to the write of the status
Toggled(hr) ==
  /\ hr.kind = "reaction"
  /\ hr.emoji = "check"
  /\ hr.taskId # 0
  /\ hr.pc \in {"ckSync", "returned"}

\* the last handler that toggled the task of handler h is h itself
LastToggle(h) ==
  \A k \in TaskHandlers :
    (k > h /\ Toggled(th[k])) => th[k].taskId # th[h].taskId

\* C11: with completion reactions handled one after another, after each
\* one the status of the task is the one of that event: add leaves done
\* with the completer and the completion time, remove leaves open with
\* both cleared; and every toggle issues the edit of the card.
C11_ToggleSequence ==
  \A h \in TaskHandlers :
    Toggled(th[h]) =>
      /\ {"status", "card_edit"} \subseteq th[h].fx
      /\ LastToggle(h) =>
           LET t == tasks[th[h].taskId]
           IN IF th[h].op = "add"
              THEN /\ t.status = "done"
                   /\ t.completed_by \in {th[h].user, "Unknown"}
                   /\ t.completed_at = "now"
              ELSE /\ t.status = "open"
                   /\ t.completed_by = "none"
                   /\ t.completed_at = "NULL"

\* add, remove, add on one card have been handled, in that order, and the
\* task is done
C11_Witness ==
  /\ MaxToggles >= 3
  /\ \A h \in 1..3 : Toggled(th[h]) /\ th[h].pc = "returned"
                     /\ th[h].taskId = 1
  /\ <<th[1].op, th[2].op, th[3].op>> = <<"add", "remove", "add">>
  /\ tasks[1].status = "done"

\* --------------------------------------------------- feed de-duplication

\* item guids of a feed
Guids == {"g1", "g2"}

\* (channel, topic) of a dashboard
Locations == {"news>feeds", "general>feeds"}

DashboardIds == {r.id : r \in dashboards}

\* (mutation of FeedItemUnique: the constraint is on item_guid alone)
FeedItemUniqueByGuid(tbl, dashboardId, guid) ==
  \A r \in tbl : r.item_guid # guid

\* UNIQUE(dashboard_id, item_guid): INSERT OR IGNORE changes a row only
\* when the pair is not in the table
FeedItemUnique(tbl, dashboardId, guid) ==
  [dashboard_id |-> dashboardId, item_guid |-> guid] \notin tbl

\* (mutation of DashboardKeyTaken: the table has no UNIQUE constraint)
DashboardKeyNeverTaken(tbl, name, loc) == FALSE

\* UNIQUE(name, channel, topic) of dashboards: an INSERT of a key the
\* table holds throws
DashboardKeyTaken(tbl, name, loc) ==
  \E r \in tbl : r.name = name /\ r.loc = loc

\* createDashboard: AUTOINCREMENT never hands an id out twice;
\* UNIQUE(name, channel, topic) makes the INSERT throw on a taken location
createDashboard ==
  \E loc \in Locations :
    /\ dashSeq < MaxDashboards
    /\ IF DashboardKeyTaken(dashboards, "rss", loc)
       THEN UNCHANGED <<dashboards, dashSeq>>
       ELSE /\ dashSeq' = dashSeq + 1
            /\ dashboards' = dashboards \cup
                 {[id |-> dashSeq + 1, name |-> "rss", loc |-> loc,
                   msg_id |-> 0, bootstrapped |-> 0]}
    /\ UNCHANGED <<feed_items, markLog>>
    /\ UNCHANGED <<streamVars, services, loopVars, mh, taskVars, schedVars>>

\* deleteDashboard: the feed_items of the row go with it (ON DELETE CASCADE)
deleteDashboard ==
  \E id \in 1..dashSeq :
    /\ dashboards' = {r \in dashboards : r.id # id}
    /\ feed_items' = {r \in feed_items : r.dashboard_id # id}
    /\ UNCHANGED <<dashSeq, markLog>>
    /\ UNCHANGED <<streamVars, services, loopVars, mh, taskVars, schedVars>>

\* markFeedItemSeen, called with the id of a row that exists or of one
\* that was deleted while a tick was in flight: with foreign_keys = ON the
\* INSERT for a deleted dashboard throws
markFeedItemSeen ==
  \E dashboardId \in 1..dashSeq, guid \in Guids :
    /\ Len(markLog) < MaxMarks
    /\ LET live == dashboardId \in DashboardIds
           changes == live /\ FeedItemUnique(feed_items, dashboardId, guid)
       IN /\ feed_items' =
               IF changes
               THEN feed_items \cup {[dashboard_id |-> dashboardId,
                                      item_guid |-> guid]}
               ELSE feed_items
          /\ markLog' = Append(markLog,
               [dashboard_id |-> dashboardId, item_guid |-> guid,
                live |-> live,
                result |-> IF ~live THEN "throws"
                           ELSE IF changes THEN "true" ELSE "false"])
    /\ UNCHANGED <<dashboards, dashSeq>>
    /\ UNCHANGED <<streamVars, services, loopVars, mh, taskVars, schedVars>>

NextFeed ==
  \/ createDashboard
  \/ deleteDashboard
  \/ markFeedItemSeen

SpecFeed == InitAllServices /\ [][NextFeed]_vars

\* ------------------------------------------- feed de-duplication: properties

EarlierCalls(k) ==
  {j \in 1..(k - 1) :
     /\ markLog[j].dashboard_id = markLog[k].dashboard_id
     /\ markLog[j].item_guid = markLog[k].item_guid}

\* C10: a markFeedItemSeen call for a dashboard row and a guid returns
\* true when it is the first call for that pair and false when it is a
\* later one, whatever was marked for other dashboards; only the call for
\* a deleted row does neither (it throws).
C10_SeenOncePerPair ==
  \A k \in 1..Len(markLog) :
    IF markLog[k].live
    THEN markLog[k].result =
           IF EarlierCalls(k) = {} THEN "true" ELSE "false"
    ELSE markLog[k].result = "throws"

\* one guid was marked for two dashboards, true both times, and marked
\* again for the first, false
C10_Witness ==
  \E i, j, k \in 1..Len(markLog) :
    /\ i < j /\ j < k
    /\ markLog[i].item_guid = markLog[j].item_guid
    /\ markLog[i].dashboard_id # markLog[j].dashboard_id
    /\ markLog[k].item_guid = markLog[i].item_guid
    /\ markLog[k].dashboard_id = markLog[i].dashboard_id
    /\ markLog[i].result = "true"
    /\ markLog[j].result = "true"
    /\ markLog[k].result = "false"

\* ---------------------------------------------------- dashboards service

\* keys of dashboardRegistry
RegistryNames == {"clock", "help", "rss"}

\* arguments of a start command: a producer without parameters, rss with
\* an url, with a text that is no url, with nothing, and an unknown name
StartArgs ==
  { [name |-> "clock", params |-> ""],
    [name |-> "rss", params |-> "http://feed"],
    [name |-> "rss", params |-> "not a url"],
    [name |-> "rss", params |-> ""],
    [name |-> "weather", params |-> ""] }

\* (mutation of validateParams: the text is not parsed as an url)
validateParamsEmptyOnly(name, params) ==
  IF name = "rss" /\ params = ""
  THEN "Usage: dashboard start rss <url>"
  ELSE "null"

\* rssDef.validateParams returns a usage text for an empty string and for
\* a string new URL() rejects; the other producers have no validateParams
validateParams(name, params) ==
  IF name = "rss" /\ (params = "" \/ params = "not a url")
  THEN "Usage: dashboard start rss <url>"
  ELSE "null"

\* what the feed can hold when it is fetched, newest item first
FeedContents == { <<>>, <<"g1">>, <<"g2", "g1">> }

getDashboardByNameAndLocation(tbl, name, loc) ==
  {r \in tbl : r.name = name /\ r.loc = loc}

getDashboardsByChannelTopic(tbl, loc) == {r \in tbl : r.loc = loc}

getDashboardByMsgId(tbl, msgId) == {r \in tbl : r.msg_id = msgId}

\* the rows of a query result as the array the handler iterates
RECURSIVE RowList(_)
RowList(rows) ==
  IF rows = {} THEN <<>>
  ELSE LET first == CHOOSE r \in rows : \A q \in rows : r.id <= q.id
       IN <<first>> \o RowList(rows \ {first})

RECURSIVE Reverse(_)
Reverse(seq) ==
  IF seq = <<>> THEN <<>> ELSE Reverse(Tail(seq)) \o <<Head(seq)>>

RECURSIVE Range(_)
Range(seq) == IF seq = <<>> THEN {} ELSE {Head(seq)} \cup Range(Tail(seq))

DashProcIdle(pr) == pr.pc \in {"none", "returned", "rejected"}

\* the slot of the next command, reaction or tick
FreeSlot(p) ==
  /\ dp[p].kind = "none"
  /\ \A q \in 1..(p - 1) : dp[q].kind # "none"

\* row.bootstrapped as the tick reads it: from the object start or init
\* built (shared with the timer) or from the row the handler read
Bootstrapped(pr) ==
  IF pr.own THEN pr.boot ELSE objs[pr.row].bootstrapped

\* tickDashboard up to the await of def.fetch (the registry has the name
\* of every row a command or a timer can hold)
EnterTick(pr, r, own) ==
  [pr EXCEPT !.pc = "fetch", !.row = r.id, !.name = r.name, !.own = own,
             !.boot = r.bootstrapped, !.queue = <<>>,
             !.fx = @ \cup {"fetch"}]

\* (mutation of TickDone: a refresh stops after its first tick)
TickDoneFirstOnly(pr, result) ==
  LET done == [pr EXCEPT !.ticks = Append(@, [row |-> pr.row,
                                              result |-> result])]
  IN IF pr.kind = "reaction"
     THEN [done EXCEPT !.pc = "unreact"]
     ELSE [done EXCEPT !.pc = "returned", !.todo = <<>>]

\* tickDashboard returned: a timer tick is over, handleRefresh goes on
\* with its next row, onReaction removes the reaction
TickDone(pr, result) ==
  LET done == [pr EXCEPT !.ticks = Append(@, [row |-> pr.row,
                                              result |-> result])]
  IN IF pr.kind = "refresh" /\ pr.todo # <<>>
     THEN EnterTick([done EXCEPT !.todo = Tail(@)], Head(pr.todo), TRUE)
     ELSE IF pr.kind = "reaction"
     THEN [done EXCEPT !.pc = "unreact"]
     ELSE [done EXCEPT !.pc = "returned"]

\* def.fetch threw: tickDashboard swallows it, handleStart rejects
FetchThrew(pr, err) ==
  IF pr.kind = "start"
  THEN [pr EXCEPT !.pc = "rejected", !.err = err]
  ELSE TickDone([pr EXCEPT !.err = err], "failed")

\* def.fetch returned the content: the edit of the pinned message follows
FetchReturned(pr) == [pr EXCEPT !.pc = "patch", !.fx = @ \cup {"patch"}]

\* stopAndCleanup: the timer is cleared and removed, the row deleted (its
\* feed_items cascade)
stopAndCleanup(id) ==
  /\ timers' = timers \ {id}
  /\ dashboards' = {r \in dashboards : r.id # id}
  /\ feed_items' = {r \in feed_items : r.dashboard_id # id}

\* onMessage "dashboard start <name> [params]" -> handleStart, up to its
\* first await: a reply for an unknown name, bad parameters or an instance
\* running here, else the send of the placeholder
DashStart ==
  \E p \in DashProcs, a \in StartArgs, loc \in Locations :
    /\ schedUp
    /\ FreeSlot(p)
    /\ dashSeq + Cardinality({q \in DashProcs : dp[q].pc = "placeholder"})
         < MaxDashboards
    /\ LET pr == [IdleDashProc EXCEPT !.kind = "start", !.name = a.name,
                                      !.params = a.params, !.loc = loc]
       IN dp' = [dp EXCEPT ![p] =
            IF a.name \notin RegistryNames
            THEN [pr EXCEPT !.pc = "reply", !.err = "unknown name",
                            !.fx = {"reply"}]
            ELSE IF validateParams(a.name, a.params) # "null"
            THEN [pr EXCEPT !.pc = "reply", !.err = "bad params",
                            !.fx = {"reply"}]
            ELSE IF getDashboardByNameAndLocation(dashboards, a.name, loc)
                      # {}
            THEN [pr EXCEPT !.pc = "reply", !.err = "already running",
                            !.fx = {"reply"}]
            ELSE [pr EXCEPT !.pc = "placeholder", !.fx = {"placeholder"}]]
    /\ UNCHANGED <<timers, objs, posts, pinSeq, schedUp>>
    /\ UNCHANGED <<streamVars, services, loopVars, mh, taskVars, feedVars>>

\* onMessage "dashboard stop [name]" -> handleStop, up to its first await
DashStop ==
  \E p \in DashProcs, name \in {"all", "clock", "rss"}, loc \in Locations :
    /\ schedUp
    /\ FreeSlot(p)
    /\ LET rows == IF name = "all"
                   THEN getDashboardsByChannelTopic(dashboards, loc)
                   ELSE getDashboardByNameAndLocation(dashboards, name, loc)
           pr == [IdleDashProc EXCEPT !.kind = "stop", !.name = name,
                                      !.loc = loc]
       IN dp' = [dp EXCEPT ![p] =
            IF rows = {}
            THEN [pr EXCEPT !.pc = "reply", !.err = "none found",
                            !.fx = {"reply"}]
            ELSE [pr EXCEPT !.pc = "delete", !.todo = RowList(rows),
                            !.fx = {"delete"}]]
    /\ UNCHANGED <<timers, objs, posts, pinSeq, schedUp>>
    /\ UNCHANGED <<streamVars, services, loopVars, mh, taskVars, feedVars>>

\* onMessage "dashboard refresh [name]" -> handleRefresh, up to the await
\* in its first tick
DashRefresh ==
  \E p \in DashProcs, name \in {"all", "clock", "rss"}, loc \in Locations :
    /\ schedUp
    /\ FreeSlot(p)
    /\ LET rows == IF name = "all"
                   THEN getDashboardsByChannelTopic(dashboards, loc)
                   ELSE getDashboardByNameAndLocation(dashboards, name, loc)
           pr == [IdleDashProc EXCEPT !.kind = "refresh", !.name = name,
                                      !.loc = loc]
       IN dp' = [dp EXCEPT ![p] =
            IF rows = {}
            THEN [pr EXCEPT !.pc = "reply", !.err = "none found",
                            !.fx = {"reply"}]
            ELSE EnterTick([pr EXCEPT !.todo = Tail(RowList(rows)),
                                      !.targets = {r.id : r \in rows}],
                           Head(RowList(rows)), TRUE)]
    /\ UNCHANGED <<timers, objs, posts, pinSeq, schedUp>>
    /\ UNCHANGED <<streamVars, services, loopVars, mh, taskVars, feedVars>>

\* reaction events as onReaction tells them apart
DashReactionEvents ==
  { [op |-> "add", user |-> "alice", emoji |-> "refresh"],
    [op |-> "remove", user |-> "alice", emoji |-> "refresh"],
    [op |-> "add", user |-> BotUser, emoji |-> "refresh"],
    [op |-> "add", user |-> "alice", emoji |-> "check"] }

\* dashboards.onReaction, up to the await in its tick: only a refresh
\* emoji added by a user on a pinned message starts one
DashReaction ==
  \E p \in DashProcs, ev \in DashReactionEvents, msgId \in 1..pinSeq :
    /\ schedUp
    /\ FreeSlot(p)
    /\ LET rows == getDashboardByMsgId(dashboards, msgId)
           pr == [IdleDashProc EXCEPT !.kind = "reaction", !.op = ev.op]
       IN dp' = [dp EXCEPT ![p] =
            IF \/ ev.op # "add"
               \/ ev.user = BotUser
               \/ ev.emoji # "refresh"
               \/ rows = {}
            THEN [pr EXCEPT !.pc = "returned"]
            ELSE EnterTick([pr EXCEPT !.targets = {r.id : r \in rows}],
                           CHOOSE r \in rows : TRUE, TRUE)]
    /\ UNCHANGED <<timers, objs, posts, pinSeq, schedUp>>
    /\ UNCHANGED <<streamVars, services, loopVars, mh, taskVars, feedVars>>

\* an interval of the timers map fires: tickDashboard with the row object
\* the timer was armed with
TimerFires ==
  \E p \in DashProcs, id \in timers :
    /\ FreeSlot(p)
    /\ dp' = [dp EXCEPT ![p] =
         EnterTick([IdleDashProc EXCEPT !.kind = "timer"], objs[id], FALSE)]
    /\ UNCHANGED <<timers, objs, posts, pinSeq, schedUp>>
    /\ UNCHANGED <<streamVars, services, loopVars, mh, taskVars, feedVars>>

NewDashboard(id, name, loc, msgId) ==
  [id |-> id, name |-> name, loc |-> loc, msg_id |-> msgId,
   bootstrapped |-> 0]

\* the send of a reply settles and the handler with it
ReplySettles ==
  \E p \in DashProcs, ok \in BOOLEAN :
    /\ dp[p].pc = "reply"
    /\ dp' = [dp EXCEPT ![p].pc = IF ok THEN "returned" ELSE "rejected"]
    /\ UNCHANGED <<timers, objs, posts, pinSeq, schedUp>>
    /\ UNCHANGED <<streamVars, services, loopVars, mh, taskVars, feedVars>>

\* handleStart: the send of the placeholder settles; createDashboard (it
\* throws on a taken name and location), then the first def.fetch
PlaceholderPosted ==
  \E p \in DashProcs, ok \in BOOLEAN :
    /\ dp[p].pc = "placeholder"
    /\ IF ~ok
       THEN /\ dp' = [dp EXCEPT ![p].pc = "rejected", ![p].err = "gateway"]
            /\ UNCHANGED <<dashboards, dashSeq, objs, pinSeq>>
       ELSE /\ pinSeq' = pinSeq + 1
            /\ IF DashboardKeyTaken(dashboards, dp[p].name, dp[p].loc)
               THEN /\ dp' = [dp EXCEPT
                                ![p].pc = "rejected",
                                ![p].err = "SQLITE_CONSTRAINT_UNIQUE"]
                    /\ UNCHANGED <<dashboards, dashSeq, objs>>
               ELSE LET row == NewDashboard(dashSeq + 1, dp[p].name,
                                            dp[p].loc, pinSeq + 1)
                    IN /\ dashSeq' = dashSeq + 1
                       /\ dashboards' = dashboards \cup {row}
                       /\ objs' = Append(objs, row)
                       /\ dp' = [dp EXCEPT ![p] =
                            [dp[p] EXCEPT !.pc = "fetch", !.row = row.id,
                                          !.own = FALSE,
                                          !.fx = @ \cup {"row", "fetch"}]]
    /\ UNCHANGED <<timers, posts, schedUp, feed_items, markLog>>
    /\ UNCHANGED <<streamVars, services, loopVars, mh, taskVars>>

\* (mutation of NewItems: the items are posted in feed order)
NewItemsInFeedOrder(feed, id) ==
  SelectSeq(feed, LAMBDA g : FeedItemUnique(feed_items, id, g))

\* rssDef.fetch on a bootstrapped row: the items markFeedItemSeen returns
\* true for, reversed
NewItems(feed, id) ==
  Reverse(SelectSeq(feed, LAMBDA g : FeedItemUnique(feed_items, id, g)))

\* (mutation of MarkAll: no marker is inserted)
MarkAllForgets(feed, id) == feed_items

\* rssDef.fetch: markFeedItemSeen for every item of the feed
MarkAll(feed, id) ==
  feed_items \cup {[dashboard_id |-> id, item_guid |-> g] : g \in Range(feed)}

\* (mutation of RssFetched: the first tick treats the feed like any other)
RssFetchedNoBootstrap(p, feed) ==
  LET pr == [dp[p] EXCEPT !.fetched = [kind |-> "feed", feed |-> feed]]
      id == pr.row
  IN IF feed # <<>> /\ id \notin DashboardIds
     THEN /\ dp' = [dp EXCEPT ![p] =
                      FetchThrew(pr, "SQLITE_CONSTRAINT_FOREIGNKEY")]
          /\ UNCHANGED <<dashboards, feed_items, objs>>
     ELSE /\ feed_items' = MarkAll(feed, id)
          /\ UNCHANGED <<dashboards, objs>>
          /\ dp' = [dp EXCEPT ![p] =
               IF NewItems(feed, id) = <<>>
               THEN FetchReturned(pr)
               ELSE [pr EXCEPT !.pc = "post",
                               !.queue = NewItems(feed, id),
                               !.fx = @ \cup {"post"}]]

\* rssDef.fetch once the feed is there: the bootstrap marks every item
\* and sets the flag, in the database and on the row object; a later tick
\* marks the items and posts the new ones; markFeedItemSeen throws for a
\* deleted row
RssFetched(p, feed) ==
  LET pr == [dp[p] EXCEPT !.fetched = [kind |-> "feed", feed |-> feed]]
      id == pr.row
  IN IF feed # <<>> /\ id \notin DashboardIds
     THEN /\ dp' = [dp EXCEPT ![p] =
                      FetchThrew(pr, "SQLITE_CONSTRAINT_FOREIGNKEY")]
          /\ UNCHANGED <<dashboards, feed_items, objs>>
     ELSE IF Bootstrapped(pr) = 0
     THEN /\ feed_items' = IF id \in DashboardIds THEN MarkAll(feed, id)
                           ELSE feed_items
          /\ dashboards' = {IF r.id = id THEN [r EXCEPT !.bootstrapped = 1]
                            ELSE r : r \in dashboards}
          /\ objs' = IF pr.own THEN objs
                     ELSE [objs EXCEPT ![id].bootstrapped = 1]
          /\ dp' = [dp EXCEPT ![p] =
               FetchReturned([pr EXCEPT !.boot = 1,
                                        !.fx = @ \cup {"bootstrap"}])]
     ELSE /\ feed_items' = IF id \in DashboardIds THEN MarkAll(feed, id)
                           ELSE feed_items
          /\ UNCHANGED <<dashboards, objs>>
          /\ dp' = [dp EXCEPT ![p] =
               IF NewItems(feed, id) = <<>>
               THEN FetchReturned(pr)
               ELSE [pr EXCEPT !.pc = "post",
                               !.queue = NewItems(feed, id),
                               !.fx = @ \cup {"post"}]]

FetchOutcomes ==
  [kind : {"content", "reject", "http error"}, feed : {<<>>}] \cup
  [kind : {"feed"}, feed : FeedContents]

\* def.fetch gets past its awaits: clock and help return their text; rss
\* has fetched the feed (or failed to)
DashFetchSettles ==
  \E p \in DashProcs, outcome \in FetchOutcomes :
    /\ dp[p].pc = "fetch"
    /\ IF dp[p].name # "rss"
       THEN /\ outcome.kind = "content"
            /\ dp' = [dp EXCEPT ![p] =
                 FetchReturned([dp[p] EXCEPT !.fetched = outcome])]
            /\ UNCHANGED <<dashboards, feed_items, objs>>
       ELSE /\ outcome.kind # "content"
            /\ IF outcome.kind = "reject"
               THEN /\ dp' = [dp EXCEPT ![p] =
                         FetchThrew([dp[p] EXCEPT !.fetched = outcome],
                                    "network")]
                    /\ UNCHANGED <<dashboards, feed_items, objs>>
               ELSE IF outcome.kind = "http error"
               THEN /\ dp' = [dp EXCEPT ![p] =
                         FetchReturned([dp[p] EXCEPT !.fetched = outcome])]
                    /\ UNCHANGED <<dashboards, feed_items, objs>>
               ELSE RssFetched(p, outcome.feed)
    /\ UNCHANGED <<timers, posts, pinSeq, schedUp, dashSeq, markLog>>
    /\ UNCHANGED <<streamVars, services, loopVars, mh, taskVars>>

\* the send of a standalone item message settles
PostSettles ==
  \E p \in DashProcs, ok \in BOOLEAN :
    /\ dp[p].pc = "post"
    /\ IF ok
       THEN /\ posts' = Append(posts, [row |-> dp[p].row,
                                       guid |-> Head(dp[p].queue), by |-> p])
            /\ dp' = [dp EXCEPT ![p] =
                 IF Tail(dp[p].queue) = <<>>
                 THEN FetchReturned([dp[p] EXCEPT !.queue = <<>>])
                 ELSE [dp[p] EXCEPT !.queue = Tail(@)]]
       ELSE /\ dp' = [dp EXCEPT ![p] = FetchThrew(dp[p], "gateway")]
            /\ UNCHANGED posts
    /\ UNCHANGED <<timers, objs, pinSeq, schedUp>>
    /\ UNCHANGED <<streamVars, services, loopVars, mh, taskVars, feedVars>>

\* startTimer: nothing when the map has the id, else the interval is set
startTimer(id) == IF id \in timers THEN timers ELSE timers \cup {id}

\* (mutation of PatchResult: a non-success edit is taken for a success)
PatchResultIgnored(outcome) == IF outcome = "reject" THEN "failed" ELSE "ok"

\* (mutation of PatchResult: a rejected edit is taken for a gone message)
PatchResultRejectIsGone(outcome) ==
  IF outcome = "success" THEN "ok" ELSE "gone"

\* tickDashboard after the edit: a result other than success means the
\* message is gone, a rejection is caught
PatchResult(outcome) ==
  IF outcome = "success" THEN "ok"
  ELSE IF outcome = "error" THEN "gone"
  ELSE "failed"

\* the edit of the pinned message settles: handleStart arms the timer, a
\* tick tears the instance down when the message is gone
PatchSettles ==
  \E p \in DashProcs, outcome \in {"success", "error", "reject"} :
    /\ dp[p].pc = "patch"
    /\ IF dp[p].kind = "start"
       THEN IF outcome = "reject"
            THEN /\ dp' = [dp EXCEPT ![p].pc = "rejected",
                                     ![p].patch = outcome,
                                     ![p].err = "gateway"]
                 /\ UNCHANGED <<timers, objs, dashboards, feed_items>>
            ELSE /\ objs' = [objs EXCEPT ![dp[p].row].bootstrapped = 1]
                 /\ timers' = startTimer(dp[p].row)
                 /\ dp' = [dp EXCEPT ![p].pc = "returned",
                                     ![p].patch = outcome,
                                     ![p].fx = @ \cup {"timer"}]
                 /\ UNCHANGED <<dashboards, feed_items>>
       ELSE /\ dp' = [dp EXCEPT ![p] =
                 TickDone([dp[p] EXCEPT !.patch = outcome],
                          PatchResult(outcome))]
            /\ UNCHANGED objs
            /\ IF PatchResult(outcome) = "gone"
               THEN stopAndCleanup(dp[p].row)
               ELSE UNCHANGED <<timers, dashboards, feed_items>>
    /\ UNCHANGED <<posts, pinSeq, schedUp, dashSeq, markLog>>
    /\ UNCHANGED <<streamVars, services, loopVars, mh, taskVars>>

\* handleStop after the delete of the pinned message, whatever it gave
StopRow(id, ok) == stopAndCleanup(id)

\* handleStop: the delete of a pinned message settles, the instance is
\* torn down, and the next row or the confirmation follows
DeleteSettles ==
  \E p \in DashProcs, ok \in BOOLEAN :
    /\ dp[p].pc = "delete"
    /\ StopRow(Head(dp[p].todo).id, ok)
    /\ dp' = [dp EXCEPT ![p] =
         LET pr == [dp[p] EXCEPT
                      !.todo = Tail(@),
                      !.targets = @ \cup {Head(dp[p].todo).id},
                      !.fx = IF ok THEN @ ELSE @ \cup {"delete failed"}]
         IN IF pr.todo = <<>>
            THEN [pr EXCEPT !.pc = "reply", !.fx = @ \cup {"reply"}]
            ELSE pr]
    /\ UNCHANGED <<objs, posts, pinSeq, schedUp, dashSeq, markLog>>
    /\ UNCHANGED <<streamVars, services, loopVars, mh, taskVars>>

\* onReaction: reactions.remove settles (its rejection is swallowed)
UnreactSettles ==
  \E p \in DashProcs :
    /\ dp[p].pc = "unreact"
    /\ dp' = [dp EXCEPT ![p].pc = "returned"]
    /\ UNCHANGED <<timers, objs, posts, pinSeq, schedUp>>
    /\ UNCHANGED <<streamVars, services, loopVars, mh, taskVars, feedVars>>

NextDash ==
  \/ DashStart
  \/ DashStop
  \/ DashRefresh
  \/ DashReaction
  \/ TimerFires
  \/ ReplySettles
  \/ PlaceholderPosted
  \/ DashFetchSettles
  \/ PostSettles
  \/ PatchSettles
  \/ DeleteSettles
  \/ UnreactSettles

SpecDash == InitAllServices /\ [][NextDash]_vars

\* ------------------------------------------- dashboards service: startup

\* rows a former run can have left: each id free or taken by a producer
\* (weather: one that has left the registry since), bootstrapped or not,
\* no two rows with one (name, channel, topic)
PersistedRows ==
  [id : 1..MaxDashboards, name : {"rss", "clock", "weather"},
   loc : Locations, msg_id : 1..MaxDashboards, bootstrapped : {0, 1}]

PersistedTables ==
  { tbl \in SUBSET {r \in PersistedRows : r.msg_id = r.id} :
      /\ Cardinality(tbl) <= MaxDashProcs
      /\ \A r, q \in tbl :
           (r.id = q.id \/ (r.name = q.name /\ r.loc = q.loc)) => r = q }

\* the process starts on the tables of a former run; init has not run
InitStartup ==
  /\ services = Registry
  /\ InitLoop
  /\ InitChain
  /\ InitStream
  /\ InitTasks
  /\ dashboards \in PersistedTables
  /\ dashSeq = MaxDashboards
  /\ feed_items \in SUBSET {[dashboard_id |-> r.id, item_guid |-> "g1"] :
                              r \in {q \in dashboards : q.name = "rss"}}
  /\ markLog = <<>>
  /\ timers = {}
  /\ objs = <<>>
  /\ dp = [p \in DashProcs |-> IdleDashProc]
  /\ posts = <<>>
  /\ pinSeq = MaxDashboards
  /\ schedUp = FALSE

\* (mutation of Resumable: init resumes every row)
ResumableAny(r) == TRUE

\* init: a row is resumed when the registry has its name
Resumable(r) == r.name \in RegistryNames

\* dashboards.init (it has no await): rows of unknown producers are
\* deleted, the others get startTimer(row, ctx, true), that is a tick that
\* runs up to the await of its fetch, and an interval
DashInit ==
  /\ ~schedUp
  /\ LET rows == RowList(dashboards)
         kept == SelectSeq(rows, Resumable)
         gone == {r.id : r \in Range(rows)} \ {r.id : r \in Range(kept)}
     IN /\ dashboards' = {r \in dashboards : r.id \notin gone}
        /\ feed_items' = {r \in feed_items : r.dashboard_id \notin gone}
        /\ timers' = {r.id : r \in Range(kept)}
        /\ objs' = [i \in 1..dashSeq |->
             IF \E r \in dashboards : r.id = i
             THEN CHOOSE r \in dashboards : r.id = i
             ELSE NewDashboard(i, "none", "none", 0)]
        /\ dp' = [p \in DashProcs |->
             IF p <= Len(kept)
             THEN EnterTick([IdleDashProc EXCEPT !.kind = "init"],
                            kept[p], FALSE)
             ELSE IdleDashProc]
  /\ schedUp' = TRUE
  /\ UNCHANGED <<posts, pinSeq, dashSeq, markLog>>
  /\ UNCHANGED <<streamVars, services, loopVars, mh, taskVars>>

NextStartup ==
  \/ DashInit
  \/ TimerFires
  \/ DashFetchSettles
  \/ PostSettles
  \/ PatchSettles

SpecStartup == InitStartup /\ [][NextStartup]_vars

\* C12: the step of dashboards.init deletes every persisted row whose name
\* the registry does not have, arms no timer and runs no tick for it, and
\* gives every row with a known name one immediate tick and one timer;
\* no later tick is for a row of an unknown producer
C12_StartupRecovery ==
  [][ /\ ~schedUp =>
          \A r \in dashboards :
            LET ticksOf == {p \in DashProcs : /\ dp'[p].kind = "init"
                                              /\ dp'[p].pc = "fetch"
                                              /\ dp'[p].row = r.id}
            IN IF r.name \in RegistryNames
               THEN /\ r \in dashboards'
                    /\ r.id \in timers'
                    /\ Cardinality(ticksOf) = 1
               ELSE /\ r.id \notin {q.id : q \in dashboards'}
                    /\ r.id \notin timers'
                    /\ ticksOf = {}
      /\ \A p \in DashProcs :
           dp'[p].kind # "none" => dp'[p].name \in RegistryNames
    ]_vars

\* init has resumed one instance and dropped a row of an unknown producer
C12_Witness ==
  /\ schedUp
  /\ Len(objs) = MaxDashboards
  /\ \E i \in 1..Len(objs) : objs[i].name = "weather"
  /\ \E i \in 1..Len(objs) : objs[i].name = "rss" /\ i \in timers
  /\ \E p \in DashProcs : dp[p].kind = "init" /\ dp[p].pc = "returned"

\* ------------------------------------------ dashboards service: properties

\* a start command for a name the registry lacks, or for rss with no url
\* or with a text that is no url
RejectedStart(pr) ==
  /\ pr.kind = "start"
  /\ \/ pr.name \notin {"clock", "help", "rss"}
     \/ pr.name = "rss" /\ pr.params \in {"", "not a url"}

\* C13: a start with an unknown name or with parameters the producer
\* rejects only sends a reply: no step of it posts a placeholder, creates
\* or changes a row or a marker, runs a fetch or arms a timer
C13_RejectedStartNoEffect ==
  [][ \A p \in DashProcs :
        (dp'[p] # dp[p] /\ RejectedStart(dp'[p])) =>
          /\ UNCHANGED <<dashboards, dashSeq, feed_items, timers, objs,
                         pinSeq, posts>>
          /\ dp'[p].fx = {"reply"}
          /\ dp'[p].pc \in {"reply", "returned", "rejected"}
    ]_vars

\* both kinds of rejected start have replied
C13_Witness ==
  /\ \E p \in DashProcs : /\ RejectedStart(dp[p])
                          /\ dp[p].name = "weather"
                          /\ dp[p].pc = "returned"
  /\ \E p \in DashProcs : /\ RejectedStart(dp[p])
                          /\ dp[p].params = "not a url"
                          /\ dp[p].pc = "returned"

\* handleStart and the ticks of the timers it arms
NextStart ==
  \/ DashStart
  \/ ReplySettles
  \/ PlaceholderPosted
  \/ DashFetchSettles
  \/ PostSettles
  \/ PatchSettles
  \/ TimerFires

SpecStart == InitAllServices /\ [][NextStart]_vars

\* the rows and the armed timers of one (name, channel, topic)
RowsOfKey(tbl, name, loc) == {r \in tbl : r.name = name /\ r.loc = loc}

TimersOfKey(name, loc) ==
  {id \in timers : objs[id].name = name /\ objs[id].loc = loc}

\* C14: however starts of one (name, channel, topic) interleave, the key
\* has at most one row and at most one timer at any time, and a start
\* that finds the instance present only replies: it creates no row and
\* arms no timer
C14_OneInstancePerKey ==
  [][ /\ \A name \in RegistryNames, loc \in Locations :
           /\ Cardinality(RowsOfKey(dashboards', name, loc)) <= 1
           /\ Cardinality(TimersOfKey(name, loc)') <= 1
      /\ \A p \in DashProcs :
           ( /\ dp[p].kind = "none"
             /\ dp'[p].kind = "start"
             /\ RowsOfKey(dashboards, dp'[p].name, dp'[p].loc) # {} ) =>
               /\ dp'[p].pc = "reply"
               /\ dp'[p].fx = {"reply"}
      /\ \A p \in DashProcs :
           (dp[p].pc = "reply" /\ dp'[p] # dp[p]) =>
             UNCHANGED <<dashboards, dashSeq, feed_items, timers, objs>>
    ]_vars

\* two starts of one key overlapped at the placeholder: one has its row
\* and its timer, the INSERT of the other threw
C14_Witness ==
  \E p, q \in DashProcs :
    /\ dp[p].kind = "start" /\ dp[q].kind = "start"
    /\ dp[p].name = dp[q].name /\ dp[p].loc = dp[q].loc
    /\ dp[p].pc = "returned" /\ dp[p].row \in timers
    /\ dp[q].pc = "rejected" /\ dp[q].err = "SQLITE_CONSTRAINT_UNIQUE"

\* the step in which the edit of a tick of process p settles
PatchOfTickSettles(p) ==
  /\ dp[p].pc = "patch"
  /\ dp[p].kind # "start"
  /\ dp'[p] # dp[p]

\* C15: when the edit of the pinned message a tick makes returns a result
\* other than success, that step removes the timer of the instance from
\* the map, deletes its row and deletes every feed-item marker of it
C15_GoneMessageTearsDown ==
  [][ \A p \in DashProcs :
        (PatchOfTickSettles(p) /\ dp'[p].patch = "error") =>
          /\ dp[p].row \notin timers'
          /\ \A r \in dashboards' : r.id # dp[p].row
          /\ \A f \in feed_items' : f.dashboard_id # dp[p].row
    ]_vars

\* a timer tick of an rss instance marked and posted a new item, and its
\* edit then found the pinned message gone
C15_Witness ==
  \E p \in DashProcs :
    /\ dp[p].kind = "timer"
    /\ dp[p].name = "rss"
    /\ dp[p].patch = "error"
    /\ dp[p].pc = "returned"
    /\ \E i \in 1..Len(posts) : posts[i].by = p

\* the step in which a tick of process p ends in the catch of
\* tickDashboard: its fetch threw (the request, a marker insert or the
\* send of an item) or its edit rejected
TickFails(p) ==
  /\ dp[p].kind # "start"
  /\ \/ PatchOfTickSettles(p) /\ dp'[p].patch = "reject"
     \/ /\ dp[p].pc \in {"fetch", "post"}
        /\ Len(dp'[p].ticks) = Len(dp[p].ticks) + 1

\* C16: the step in which a tick fails otherwise than by a non-success
\* edit changes no row, no feed-item marker and no timer (an armed timer
\* stays armed and fires again), and the tick is recorded as failed
C16_FailureSwallowed ==
  [][ \A p \in DashProcs :
        TickFails(p) =>
          /\ UNCHANGED <<dashboards, feed_items, timers, objs>>
          /\ dp'[p].ticks[Len(dp'[p].ticks)].result = "failed"
          /\ dp'[p].pc # "rejected"
    ]_vars

\* the immediate tick of a resumed instance failed, and the next tick of
\* its timer ran through
C16_Witness ==
  \E p, q \in DashProcs :
    /\ dp[p].kind = "init" /\ dp[p].pc = "returned"
    /\ dp[p].ticks[1].result = "failed"
    /\ dp[q].kind = "timer" /\ dp[q].pc = "returned"
    /\ dp[q].row = dp[p].row
    /\ dp[q].ticks[1].result = "ok"

\* C17: once a stop command has completed, no instance it targeted has a
\* row or an armed timer, whether or not the delete of its pinned message
\* succeeded
C17_StopLeavesNothing ==
  \A p \in DashProcs :
    (dp[p].kind = "stop" /\ dp[p].pc = "returned") =>
      \A id \in dp[p].targets :
        /\ id \notin timers
        /\ id \notin DashboardIds

\* the service is up with the instances of a former run resumed and
\* their immediate ticks over
InitRunning ==
  /\ services = Registry
  /\ InitLoop
  /\ InitChain
  /\ InitStream
  /\ InitTasks
  /\ dashboards \in {tbl \in PersistedTables :
                       \A r \in tbl : r.name \in RegistryNames}
  /\ dashSeq = MaxDashboards
  /\ feed_items \in SUBSET {[dashboard_id |-> r.id, item_guid |-> "g1"] :
                              r \in {q \in dashboards : q.name = "rss"}}
  /\ markLog = <<>>
  /\ timers = DashboardIds
  /\ objs = [i \in 1..MaxDashboards |->
       IF i \in DashboardIds
       THEN CHOOSE r \in dashboards : r.id = i
       ELSE NewDashboard(i, "none", "none", 0)]
  /\ dp = [p \in DashProcs |-> IdleDashProc]
  /\ posts = <<>>
  /\ pinSeq = MaxDashboards
  /\ schedUp = TRUE

\* refresh commands and reactions next to the ticks of the timers
NextRefresh ==
  \/ DashRefresh
  \/ DashReaction
  \/ TimerFires
  \/ ReplySettles
  \/ DashFetchSettles
  \/ PostSettles
  \/ PatchSettles
  \/ UnreactSettles

SpecRefresh == InitRunning /\ [][NextRefresh]_vars

\* a step of a refresh command or of a reaction handler
RefreshStep(p) ==
  /\ dp'[p].kind \in {"refresh", "reaction"}
  /\ dp'[p] # dp[p]

\* the handler has run one tick for each instance it targeted
OneTickPerTarget(pr) ==
  /\ Len(pr.ticks) = Cardinality(pr.targets)
  /\ {pr.ticks[i].row : i \in 1..Len(pr.ticks)} = pr.targets

\* C18 as stated: no step of a refresh changes the timer map
C18_RefreshKeepsTimers ==
  [][ \A p \in DashProcs : RefreshStep(p) => timers' = timers ]_vars

\* C18 (amended): a refresh, by command or by reaction, runs one tick for
\* each instance it targets, and its steps leave the timer map as it is,
\* except that a tick whose edit returns a non-success result removes
\* the timer of its instance
C18_RefreshTicksOnce ==
  [][ \A p \in DashProcs :
        RefreshStep(p) =>
          /\ IF PatchOfTickSettles(p) /\ dp'[p].patch = "error"
             THEN timers' = timers \ {dp[p].row}
             ELSE timers' = timers
          /\ (dp'[p].pc = "returned" /\ dp'[p].targets # {}) =>
               OneTickPerTarget(dp'[p])
    ]_vars

\* a refresh of a topic with two instances has ticked both: the edit of
\* the first found its message gone, the second went through
C18_Witness ==
  \E p \in DashProcs :
    /\ dp[p].kind = "refresh"
    /\ dp[p].pc = "returned"
    /\ Cardinality(dp[p].targets) = 2
    /\ dp[p].ticks[1].result = "gone"
    /\ dp[p].ticks[2].result = "ok"
    /\ dp[p].ticks[2].row \in timers

\* the step in which the fetch handleStart awaits for a new rss instance
\* returns with the feed
FirstFetchReturns(p) ==
  /\ dp[p].kind = "start"
  /\ dp[p].name = "rss"
  /\ dp[p].pc = "fetch"
  /\ dp'[p].pc # "fetch"
  /\ dp'[p].fetched.kind = "feed"

\* C19: the first tick of a new rss instance, once it has the feed, marks
\* every item of the feed as seen for the instance and sets the
\* bootstrapped flag of the row, in the table and on the row object the
\* timer will use; no step of a start posts a standalone item message
C19_BootstrapMarksAll ==
  [][ \A p \in DashProcs :
        /\ FirstFetchReturns(p) =>
             /\ \A i \in 1..Len(dp'[p].fetched.feed) :
                  [dashboard_id |-> dp[p].row,
                   item_guid |-> dp'[p].fetched.feed[i]] \in feed_items'
             /\ \E r \in dashboards' :
                  r.id = dp[p].row /\ r.bootstrapped = 1
             /\ objs'[dp[p].row].bootstrapped = 1
             /\ dp'[p].pc = "patch"
        /\ dp'[p].kind = "start" =>
             /\ dp'[p].pc # "post"
             /\ dp'[p] # dp[p] => posts' = posts
    ]_vars

\* a start of rss has gone through on a feed of two items: both are
\* marked, the row is bootstrapped, the timer armed, nothing posted
C19_Witness ==
  \E p \in DashProcs :
    /\ dp[p].kind = "start"
    /\ dp[p].name = "rss"
    /\ dp[p].pc = "returned"
    /\ dp[p].fetched = [kind |-> "feed", feed |-> <<"g2", "g1">>]
    /\ \A g \in Guids :
         [dashboard_id |-> dp[p].row, item_guid |-> g] \in feed_items
    /\ \E r \in dashboards : r.id = dp[p].row /\ r.bootstrapped = 1
    /\ dp[p].row \in timers
    /\ posts = <<>>

\* a tick of process p on an rss row that is past its bootstrap, as the
\* fetch reads the flag
NonBootstrapTick(pr) ==
  /\ pr.kind # "start"
  /\ pr.name = "rss"
  /\ Bootstrapped(pr) = 1

\* the items of a feed that have no marker for the instance, oldest first
UnseenOldestFirst(feed, id) ==
  Reverse(SelectSeq(feed, LAMBDA g :
    [dashboard_id |-> id, item_guid |-> g] \notin feed_items))

\* the guids of the standalone messages process p has posted for a row
RECURSIVE PostedBy(_, _, _)
PostedBy(log, p, id) ==
  IF log = <<>> THEN <<>>
  ELSE IF Head(log).by = p /\ Head(log).row = id
  THEN <<Head(log).guid>> \o PostedBy(Tail(log), p, id)
  ELSE PostedBy(Tail(log), p, id)

\* C20: a tick of an rss instance past its bootstrap queues for posting
\* the items of the feed that had no marker, oldest first, and no item
\* that had one; it marks every item; each send that succeeds posts the
\* head of that queue once; and when the queue is empty the edit of the
\* pinned message is issued
C20_NewItemsOldestFirst ==
  [][ \A p \in DashProcs :
        /\ ( /\ dp[p].pc = "fetch"
             /\ NonBootstrapTick(dp[p])
             /\ dp'[p].pc \in {"post", "patch"}
             /\ dp'[p].fetched.kind = "feed" ) =>
               LET feed == dp'[p].fetched.feed
                   new == UnseenOldestFirst(feed, dp[p].row)
               IN /\ dp'[p].queue = new
                  /\ dp'[p].pc = IF new = <<>> THEN "patch" ELSE "post"
                  /\ posts' = posts
                  /\ \A i \in 1..Len(feed) :
                       [dashboard_id |-> dp[p].row,
                        item_guid |-> feed[i]] \in feed_items'
        /\ ( /\ dp[p].pc = "post"
             /\ dp'[p] # dp[p]
             /\ dp'[p].pc \in {"post", "patch"} ) =>
               /\ posts' = Append(posts, [row |-> dp[p].row,
                                          guid |-> Head(dp[p].queue),
                                          by |-> p])
               /\ dp'[p].queue = Tail(dp[p].queue)
               /\ dp'[p].pc = IF dp'[p].queue = <<>> THEN "patch"
                              ELSE "post"
               /\ dp'[p].pc = "patch" =>
                    LET sent == PostedBy(posts', p, dp[p].row)
                    IN sent = SelectSeq(Reverse(dp[p].fetched.feed),
                                LAMBDA g : g \in Range(sent))
        /\ (dp[p].pc # "post" /\ dp'[p] # dp[p]) => posts' = posts
    ]_vars

\* a tick found two new items in the feed, posted the older one and then
\* the newer one, and its edit of the pinned message went through
C20_Witness ==
  \E p \in DashProcs :
    /\ dp[p].kind = "timer"
    /\ dp[p].pc = "returned"
    /\ dp[p].fetched = [kind |-> "feed", feed |-> <<"g2", "g1">>]
    /\ dp[p].patch = "success"
    /\ posts = << [row |-> dp[p].row, guid |-> "g1", by |-> p],
                  [row |-> dp[p].row, guid |-> "g2", by |-> p] >>

\* C36: whatever ticks of one rss instance overlap (the timer, a refresh
\* command, a refresh reaction), no item of the feed is posted as a
\* standalone message more than once for the instance.
C36_ItemPostedOnce ==
  \A i, j \in 1..Len(posts) :
    (posts[i].row = posts[j].row /\ posts[i].guid = posts[j].guid) => i = j

\* two ticks of one instance are in flight with the same feed of two new
\* items: one is between its two posts, the other found nothing new
C36_Witness ==
  \E p, q \in DashProcs :
    /\ p # q
    /\ dp[p].row = dp[q].row
    /\ dp[p].kind # dp[q].kind
    /\ dp[p].fetched = [kind |-> "feed", feed |-> <<"g2", "g1">>]
    /\ dp[q].fetched = dp[p].fetched
    /\ dp[p].pc = "post" /\ dp[p].queue = <<"g2">>
    /\ dp[q].pc = "patch" /\ dp[q].queue = <<>>
    /\ posts = <<[row |-> dp[p].row, guid |-> "g1", by |-> p]>>

\* C37: (as the specification states it) no item is lost by a failed
\* tick: when a tick past the bootstrap failed at a send with items it had
\* marked still unsent, and a tick of the timer on the same instance has
\* then gone through with these items in its feed, the items have been
\* posted as standalone messages.
C37_NoItemLost ==
  \A p, q \in DashProcs :
    ( /\ p < q
      /\ dp[p].kind \in {"timer", "refresh", "reaction"}
      /\ DashProcIdle(dp[p])
      /\ dp[p].err = "gateway"
      /\ dp[q].kind = "timer"
      /\ dp[q].row = dp[p].row
      /\ dp[q].pc = "returned"
      /\ dp[q].fetched.kind = "feed"
      /\ dp[q].patch = "success"
      /\ dp[q].ticks = <<[row |-> dp[q].row, result |-> "ok"]>> ) =>
        \A g \in Range(dp[p].queue) \cap Range(dp[q].fetched.feed) :
          \E k \in 1..Len(posts) :
            posts[k].row = dp[p].row /\ posts[k].guid = g

\* C38: (as the specification states it) standalone item messages are
\* posted only by ticks of an instance whose persisted bootstrapped flag
\* is 1, and the row object of a timer claims the flag only when the
\* persisted row has it; so after a start whose feed request got a non-OK
\* response no tick announces the items already in the feed.
C38_PostsOnlyOnceBootstrapped ==
  /\ \A r \in dashboards :
       (r.name = "rss" /\ r.id \in timers) =>
         objs[r.id].bootstrapped <= r.bootstrapped
  /\ \A k \in 1..Len(posts) :
       \A r \in dashboards :
         r.id = posts[k].row => r.bootstrapped = 1

\* C39: (as the specification implies it) when no handler is in progress,
\* every placeholder a start has posted is the pinned message of a
\* persisted row, or was the pinned message of a row removed together with
\* it; a start that loses against a concurrent start for the same name and
\* topic leaves no placeholder that no instance owns.
C39_NoOrphanPlaceholder ==
  (\A p \in DashProcs : DashProcIdle(dp[p])) =>
    \A m \in 1..pinSeq :
      \/ \E r \in dashboards : r.msg_id = m
      \/ \E i \in 1..Len(objs) :
           objs[i].msg_id = m /\ objs[i].id \notin DashboardIds

\* C30 as stated: when no command, reaction or tick is in progress, every
\* persisted dashboard row has an armed timer, also after a start whose
\* first fetch or edit of the placeholder failed
C30_EveryRowHasTimer ==
  (\A p \in DashProcs : DashProcIdle(dp[p])) =>
    \A id \in DashboardIds : id \in timers

\* C31 as stated: when no command, reaction or tick is in progress, every
\* armed timer is that of a persisted dashboard row, also after a stop
\* that ran while the start of the instance was suspended
C31_EveryTimerHasRow ==
  (\A p \in DashProcs : DashProcIdle(dp[p])) =>
    \A id \in timers : id \in DashboardIds

\* the events received on queue q
ReceivedOn(q) ==
  {s \in EventIds : events[s].type # "none" /\ events[s].queue = q}

\* the id of the last event received on queue q, or the cursor its
\* registration returned
LastReceived(q) ==
  IF ReceivedOn(q) = {} THEN lastReg.lastEventId
  ELSE LET last == CHOOSE s \in ReceivedOn(q) :
                     \A t \in ReceivedOn(q) : t <= s
       IN events[last].id

\* C33: every poll in flight carries the current queue and, as cursor, the
\* id of the last event received on it (the cursor of its registration if
\* there is none), also after a failed poll and its backoff; with a
\* gateway that answers with ids above the cursor no event comes twice
\* and each is dispatched once
C33_CursorIsLastEvent ==
  /\ loopPc = "polling" =>
       /\ lastReg.queueId = queueId
       /\ pollArgs = [queue_id |-> queueId,
                      last_event_id |-> LastReceived(queueId)]
  /\ \A s, t \in EventIds :
       (/\ events[s].type # "none"
        /\ events[t].type # "none"
        /\ events[s].queue = events[t].queue
        /\ events[s].id = events[t].id) => s = t
  /\ \A s \in EventIds :
       /\ hmCalls[s] = IF events[s].type = "message" THEN 1 ELSE 0
       /\ \A i \in SvcIdx : rxCalls[s][i] <= 1

\* an event was received, the next poll failed, and after the backoff the
\* poll is repeated with the id of that event
C33_Witness ==
  /\ loopPc = "polling"
  /\ prevPoll.outcome = "failed"
  /\ ReceivedOn(queueId) # {}
  /\ prevPoll.last_event_id = LastReceived(queueId)
  /\ pollArgs.last_event_id = LastReceived(queueId)

\* ----------------------------------------- tasks service: assign, unassign


\* what parseMentions returns for an assign command
AssignMentionLists == {<<>>, <<"bob">>, <<"bob", "alice", "bob">>}

\* extractQuotedMessageId: 0 stands for null, the others are the source
\* messages and the first card
QuotedIds == 0..(MaxSourceMsgs + 1)

\* (mutation of AssignVerdict: a command that mentions nobody goes through)
AssignVerdictAllowsNobody(mentions, quotedId, tbl) ==
  IF quotedId = 0 THEN "no quote"
  ELSE IF getTaskByTaskMsgId(tbl, quotedId) = {} THEN "not a task"
  ELSE "ok"

\* handleAssign, its three early returns
AssignVerdict(mentions, quotedId, tbl) ==
  IF mentions = <<>> THEN "usage"
  ELSE IF quotedId = 0 THEN "no quote"
  ELSE IF getTaskByTaskMsgId(tbl, quotedId) = {} THEN "not a task"
  ELSE "ok"

\* handleAssign up to its first await: an explanatory reply, or the write
\* of the assignee rows followed by the PATCH of the card
AssignCommand ==
  \E h \in TaskHandlers, removing \in BOOLEAN,
     mentions \in AssignMentionLists, quotedId \in QuotedIds :
    /\ TasksActive
    /\ th[h].kind = "none"
    /\ \A k \in 1..(h - 1) : th[k].kind # "none"
    /\ LET verdict == AssignVerdict(mentions, quotedId, tasks)
           hr == [IdleTaskHandler EXCEPT
                    !.kind = "assign",
                    !.op = IF removing THEN "unassign" ELSE "assign",
                    !.user = "alice", !.mentions = mentions,
                    !.msg = quotedId,
                    !.hadTask = getTaskByTaskMsgId(tasks, quotedId) # {},
                    !.exit = verdict]
       IN IF verdict # "ok"
          THEN /\ th' = [th EXCEPT ![h] =
                    [hr EXCEPT !.pc = "awaitNotice",
                               !.fx = {"notice_send"}]]
               /\ UNCHANGED assignees
          ELSE LET id == CHOOSE i \in getTaskByTaskMsgId(tasks, quotedId) :
                           TRUE
               IN /\ assignees' =
                       IF removing
                       THEN removeAssignees(assignees, id, mentions)
                       ELSE addAssignees(assignees, id, mentions)
                  /\ th' = [th EXCEPT ![h] =
                       [hr EXCEPT
                          !.pc = "asSync", !.taskId = id,
                          !.fx = {"assignee_write", "card_edit"},
                          !.snap = tasks[id],
                          !.edit = NextEdit,
                          !.rendered =
                            renderTaskCard(tasks[id],
                                           getAssignees(assignees', id))]]
    /\ UNCHANGED <<tasks, cards>>
    /\ UNCHANGED <<streamVars, services, loopVars, mh, feedVars, schedVars>>

\* the PATCH of syncTaskMessage settles (its rejection is swallowed) and
\* the confirmation is sent
AsSyncSettles ==
  \E h \in TaskHandlers :
    /\ th[h].pc = "asSync"
    /\ th' = [th EXCEPT ![h].pc = "awaitConfirm",
                        ![h].fx = @ \cup {"confirm_send"}]
    /\ UNCHANGED <<tasks, assignees, cards>>
    /\ UNCHANGED <<streamVars, services, loopVars, mh, feedVars, schedVars>>

InitAssign ==
  /\ services = Registry
  /\ InitLoop
  /\ InitChain
  /\ InitStream
  /\ InitFeed
  /\ InitSched
  /\ tasks = <<>>
  /\ assignees = <<>>
  /\ cards = 0
  /\ th = [h \in 1..MaxAssigns |-> IdleTaskHandler]

\* a promote command, handled to its end before the next command starts
SequentialPromote ==
  /\ \A h \in TaskHandlers : TaskHandlerIdle(th[h])
  /\ TaskCommand

\* an assign or unassign command, likewise
SequentialAssign ==
  /\ \A h \in TaskHandlers : TaskHandlerIdle(th[h])
  /\ AssignCommand

NextAssign ==
  \/ SequentialPromote
  \/ CmdFetchSettles
  \/ NoticeSettles
  \/ ChannelSettles
  \/ CardSettles
  \/ ReactSettles
  \/ ConfirmSettles
  \/ SequentialAssign
  \/ AsSyncSettles
  \/ SequentialReaction
  \/ RxGetMsgSettles
  \/ RxGetUserSettles
  \/ CkGetUserSettles
  \/ CkSyncSettles

SpecAssign == InitAssign /\ [][NextAssign]_vars

\* the rows of task_assignees that bind user u to task t
RowsOf(t, u) ==
  {i \in 1..Len(assignees) :
     assignees[i].task_id = t /\ assignees[i].user_id = u}

\* a handler that has just run handleAssign past its early returns
AssignWrites(h, op) ==
  /\ th[h].kind = "none"
  /\ th'[h].kind = "assign"
  /\ th'[h].op = op
  /\ th'[h].taskId # 0

Mentioned(hr) == {hr.mentions[i] : i \in 1..Len(hr.mentions)}

\* C26: no user is bound to a task by more than one row; an assign of
\* users who all are assigned, and an unassign of users none of whom is,
\* leave the table as it was
C26_AssignedAtMostOnce ==
  /\ [](\A t \in 1..Len(tasks), u \in Humans :
          Cardinality(RowsOf(t, u)) <= 1)
  /\ [][\A h \in TaskHandlers :
          /\ (/\ AssignWrites(h, "assign")
              /\ \A u \in Mentioned(th'[h]) :
                   RowsOf(th'[h].taskId, u) # {})
               => assignees' = assignees
          /\ (/\ AssignWrites(h, "unassign")
              /\ \A u \in Mentioned(th'[h]) :
                   RowsOf(th'[h].taskId, u) = {})
               => assignees' = assignees]_vars

\* bob, assigned by the promote command, was assigned again
C26_Witness ==
  /\ th[1].kind = "command"
  /\ th[1].mentions = <<"bob">>
  /\ th[2].kind = "assign"
  /\ th[2].op = "assign"
  /\ th[2].taskId = 1
  /\ th[2].mentions = <<"bob">>
  /\ th[2].pc = "returned"
  /\ Cardinality(RowsOf(1, "bob")) = 1
  /\ Len(assignees) = 1

\* a command handleAssign cannot carry out: nobody mentioned, nothing
\* quoted, or a quoted message that was no task card when it arrived
Unusable(hr) ==
  /\ hr.kind = "assign"
  /\ \/ hr.mentions = <<>>
     \/ hr.msg = 0
     \/ ~hr.hadTask

\* C27: an assign or unassign command that mentions nobody, quotes nothing
\* or quotes a message that is no task card sends one reply and nothing
\* else, and no step of its handler changes a task, an assignee or a card
C27_UnusableAssignOnlyReplies ==
  /\ [](\A h \in TaskHandlers :
          Unusable(th[h]) =>
            /\ th[h].fx = {"notice_send"}
            /\ th[h].taskId = 0
            /\ th[h].pc \in {"awaitNotice", "returned", "rejected"})
  /\ [][\A h \in TaskHandlers :
          (th'[h] # th[h] /\ Unusable(th'[h])) =>
            UNCHANGED <<tasks, assignees, cards>>]_vars

\* an unassign that mentions nobody, with the card of task 1 quoted, has
\* been answered
C27_Witness ==
  \E h \in TaskHandlers :
    /\ th[h].kind = "assign"
    /\ th[h].op = "unassign"
    /\ th[h].mentions = <<>>
    /\ th[h].hadTask
    /\ th[h].pc = "returned"
    /\ th[h].fx = {"notice_send"}

\* ------------------------------------------------ tasks service: lookup

\* full names found in the tables
StoredNames == {"Alice", "alice", "Émile"}

\* full names a lookup is made for: the sender's or a mentioned user's
LookupNames == {"alice", "Émile"}

\* String.prototype.toLowerCase, which maps every cased letter
toLowerCase(name) ==
  CASE name = "Alice" -> "alice"
    [] name = "Émile" -> "émile"
    [] OTHER -> name

\* LOWER of SQLite as built into better-sqlite3 (no ICU extension): only
\* the letters A to Z are mapped
LOWER(name) ==
  CASE name = "Alice" -> "alice"
    [] OTHER -> name

\* the slots of task_assignees for n tasks: task by task, user by user
PairSeq(n) ==
  [k \in 1..(2 * n) |->
     [task_id |-> (k + 1) \div 2,
      user_id |-> IF k % 2 = 1 THEN "alice" ELSE "bob"]]

\* the tables task_assignees can be for n tasks: each user assigned or not
\* to each task, under the name they had when they were assigned
AssigneeTables(n) ==
  { SelectSeq([k \in 1..(2 * n) |->
                 [task_id |-> PairSeq(n)[k].task_id, user_name |-> f[k],
                  user_id |-> PairSeq(n)[k].user_id]],
              LAMBDA r : r.user_name # "none") :
      f \in [1..(2 * n) -> {"none"} \cup StoredNames] }

\* the tables tasks can be: row i promoted from message i with card
\* MaxSourceMsgs + i, by creators of any stored name
TaskTables ==
  UNION { { [i \in 1..n |->
               [source_msg_id |-> i, creator_name |-> c[i],
                status |-> "open", completed_by |-> "none",
                completed_at |-> "NULL", task_msg_id |-> MaxSourceMsgs + i]] :
              c \in [1..n -> StoredNames] } : n \in 0..MaxLookupTasks }

\* ORDER BY created_at DESC, rows being created in the order of their ids
RECURSIVE NewestFirst(_)
NewestFirst(ids) ==
  IF ids = {} THEN <<>>
  ELSE LET top == CHOOSE i \in ids : \A j \in ids : j <= i
       IN <<top>> \o NewestFirst(ids \ {top})

\* SELECT DISTINCT t.* FROM tasks t JOIN task_assignees a ON a.task_id =
\* t.id WHERE LOWER(a.user_name) = ?
AssignedTasks(tbl, asg, nameLower) ==
  {i \in DOMAIN tbl :
     \E k \in 1..Len(asg) :
       asg[k].task_id = i /\ LOWER(asg[k].user_name) = nameLower}

\* SELECT * FROM tasks WHERE LOWER(creator_name) = ?, less the assigned ones
CreatedTasks(tbl, asg, nameLower) ==
  {i \in DOMAIN tbl : LOWER(tbl[i].creator_name) = nameLower}
    \ AssignedTasks(tbl, asg, nameLower)

\* the entries pushed for one group
Entries(ids, asg, role) ==
  [k \in 1..Len(ids) |->
     [task |-> ids[k], assignees |-> getAssignees(asg, ids[k]),
      role |-> role]]

getTasksForUser(tbl, asg, userName) ==
  LET nameLower == toLowerCase(userName)
  IN Entries(NewestFirst(AssignedTasks(tbl, asg, nameLower)), asg,
             "assigned")
       \o Entries(NewestFirst(CreatedTasks(tbl, asg, nameLower)), asg,
                  "created")

\* handleMyTasks up to its await: the lookup, then the send of the list
\* or of "No tasks found"
MyTasksCommand ==
  \E h \in TaskHandlers, userName \in LookupNames :
    /\ TasksActive
    /\ th[h].kind = "none"
    /\ \A k \in 1..(h - 1) : th[k].kind # "none"
    /\ th' = [th EXCEPT ![h] =
         [IdleTaskHandler EXCEPT
            !.kind = "lookup", !.pc = "awaitNotice", !.user = userName,
            !.result = getTasksForUser(tasks, assignees, userName),
            !.fx = {"notice_send"}]]
    /\ UNCHANGED <<tasks, assignees, cards>>
    /\ UNCHANGED <<streamVars, services, loopVars, mh, feedVars, schedVars>>

InitLookup ==
  /\ services = Registry
  /\ InitLoop
  /\ InitChain
  /\ InitStream
  /\ InitFeed
  /\ InitSched
  /\ tasks \in TaskTables
  /\ assignees \in AssigneeTables(Len(tasks))
  /\ cards = Len(tasks)
  /\ th = [h \in 1..1 |-> IdleTaskHandler]

NextLookup ==
  \/ MyTasksCommand
  \/ NoticeSettles

SpecLookup == InitLookup /\ [][NextLookup]_vars

\* two names are equal when case is ignored
SameNameIgnoringCase(a, b) == toLowerCase(a) = toLowerCase(b)

\* the tasks that have an assignee of that name, case ignored
AssignedTo(name) ==
  {i \in DOMAIN tasks :
     \E k \in 1..Len(assignees) :
       /\ assignees[k].task_id = i
       /\ SameNameIgnoringCase(assignees[k].user_name, name)}

\* the tasks created under that name, case ignored
CreatedBy(name) ==
  {i \in DOMAIN tasks : SameNameIgnoringCase(tasks[i].creator_name, name)}

\* the positions of a result that name task i in a role
Places(result, i, role) ==
  {k \in 1..Len(result) : result[k].task = i /\ result[k].role = role}

\* a result lists the tasks of first once each as assigned, then those of
\* second less first once each as created, and nothing else, each with
\* the assignee rows of its task
TwoGroups(result, first, second) ==
  /\ \A i \in DOMAIN tasks :
       /\ Cardinality(Places(result, i, "assigned")) =
            IF i \in first THEN 1 ELSE 0
       /\ Cardinality(Places(result, i, "created")) =
            IF i \in second \ first THEN 1 ELSE 0
  /\ \A k \in 1..Len(result) :
       /\ result[k].task \in DOMAIN tasks
       /\ result[k].assignees = getAssignees(assignees, result[k].task)
  /\ \A k, l \in 1..Len(result) :
       (result[k].role = "assigned" /\ result[l].role = "created") => k < l

\* C28 as stated: a lookup returns the tasks with an assignee of that
\* name, case ignored, then the other tasks created under that name, case
\* ignored, each once with its assignee rows, and no other task
C28_LookupIgnoresCase ==
  \A h \in TaskHandlers :
    th[h].kind = "lookup" =>
      TwoGroups(th[h].result, AssignedTo(th[h].user), CreatedBy(th[h].user))

\* names LOWER and toLowerCase agree on
Ascii(name) == LOWER(name) = toLowerCase(name)

\* the same holds of every lookup when no name involved has a cased
\* letter outside A to Z
LookupRightForAsciiNames ==
  \A h \in TaskHandlers :
    (/\ th[h].kind = "lookup"
     /\ Ascii(th[h].user)
     /\ \A i \in DOMAIN tasks : Ascii(tasks[i].creator_name)
     /\ \A k \in 1..Len(assignees) : Ascii(assignees[k].user_name)) =>
      TwoGroups(th[h].result, AssignedTo(th[h].user), CreatedBy(th[h].user))

\* a lookup command, handled like the other commands of SpecAssign
SequentialLookup ==
  /\ \A h \in TaskHandlers : TaskHandlerIdle(th[h])
  /\ MyTasksCommand

NextAllCommands ==
  \/ NextAssign
  \/ SequentialLookup

SpecAllCommands == InitAssign /\ [][NextAllCommands]_vars

\* the status and the completion metadata of a row of tasks
Completion(row) ==
  [status |-> row.status, completed_by |-> row.completed_by,
   completed_at |-> row.completed_at]

\* C32: no step deletes a task, and a step changes the status or the
\* completion metadata of a task only when it is a step of the handler of
\* a completion reaction on the card of that task
C32_StatusOnlyByCompletionReaction ==
  [][\A i \in DOMAIN tasks :
       /\ i \in DOMAIN tasks'
       /\ tasks'[i].source_msg_id = tasks[i].source_msg_id
       /\ Completion(tasks'[i]) # Completion(tasks[i]) =>
            \E h \in TaskHandlers :
              /\ th'[h] # th[h]
              /\ th[h].kind = "reaction"
              /\ th[h].emoji = "check"
              /\ th[h].msg = tasks[i].task_msg_id]_vars

\* task 1 was completed by a reaction on its card, then bob was assigned
\* to it, and it is still done
C32_Witness ==
  /\ th[2].kind = "reaction"
  /\ th[2].emoji = "check"
  /\ th[3].kind = "assign"
  /\ th[3].taskId = 1
  /\ th[3].pc = "returned"
  /\ tasks[1].status = "done"
  /\ Len(assignees) = 1

\* C40: (as the specification states it) promotion is atomic with respect
\* to failure: when a gateway call of a promote fails after the task row
\* was inserted, no task stays persisted for that source message; so with
\* no handler in progress every persisted task has the location of its
\* card recorded.
C40_PromoteAllOrNothing ==
  (\A h \in TaskHandlers : TaskHandlerIdle(th[h])) =>
    \A i \in DOMAIN tasks : tasks[i].task_msg_id # 0

\* ------------------------------- tasks service: handlers racing on one card

\* a completion reaction on the card of the stored task, its handler
\* starting while earlier handlers are still suspended
CardToggle ==
  /\ TaskReaction
  /\ \E h \in TaskHandlers :
       /\ th[h].kind = "none"
       /\ th'[h].pc = "ckGetUser"

\* an assign or unassign command quoting the card of the stored task
CardAssign ==
  /\ AssignCommand
  /\ \E h \in TaskHandlers :
       /\ th[h].kind = "none"
       /\ th'[h].pc = "asSync"

NextCard ==
  \/ CardToggle
  \/ CardAssign
  \/ CkGetUserSettles
  \/ CkSyncSettles
  \/ AsSyncSettles
  \/ ConfirmSettles

SpecCard == InitToggle /\ [][NextCard]_vars

\* the handlers of completion reactions on the card of task i
TogglesOf(i) ==
  {h \in TaskHandlers :
     /\ th[h].kind = "reaction"
     /\ th[h].emoji = "check"
     /\ th[h].taskId = i}

\* the handler of the last of these events in the order of the queue
LastInQueue(i) ==
  CHOOSE h \in TogglesOf(i) : \A k \in TogglesOf(i) : k <= h

\* C34: (as the specification states it) when several completion
\* reactions on one card have been dispatched and their handlers, each
\* suspended at the lookup of the reactor, have all finished, the status of
\* the task is the one of the last event in the order of the queue: done
\* after an add, open after a remove.
C34_LastEventWins ==
  \A i \in DOMAIN tasks :
    (/\ \A h \in TaskHandlers : TaskHandlerIdle(th[h])
     /\ Cardinality(TogglesOf(i)) >= 2
     /\ \A h \in TogglesOf(i) : th[h].pc = "returned")
    => tasks[i].status =
         IF th[LastInQueue(i)].op = "add" THEN "done" ELSE "open"

\* the handlers that issued an edit of the card of task i
EditorsOf(i) ==
  {h \in TaskHandlers : th[h].taskId = i /\ th[h].edit # 0}

\* the content the card of task i shows when every edit issued so far
\* succeeded in the order of issue: the one of the last edit
LastWritten(i) ==
  th[CHOOSE h \in EditorsOf(i) :
       \A k \in EditorsOf(i) : th[k].edit <= th[h].edit].rendered

\* the status line and the assignee line of the card of task i as the
\* stored rows give them
CardOfRows(i) ==
  [status |-> tasks[i].status,
   by |-> IF tasks[i].status = "done" THEN tasks[i].completed_by
          ELSE "none",
   assigned |-> SelectSeq(assignees, LAMBDA r : r.task_id = i)]

\* C35: whenever no task handler is in progress, the content of the last
\* edit issued for a card is the rendering of the stored status and of the
\* stored assignees of its task, whatever the interleaving of assign,
\* unassign and completion handlers on this task.
C35_CardShowsStoredState ==
  (\A h \in TaskHandlers : TaskHandlerIdle(th[h])) =>
    \A i \in DOMAIN tasks :
      EditorsOf(i) # {} => LastWritten(i) = CardOfRows(i)

\* an add was dispatched first and settled last, after an assign that ran
\* while it was suspended: the card shows the task done with its assignee
C35_Witness ==
  /\ \A h \in TaskHandlers : TaskHandlerIdle(th[h])
  /\ th[1].kind = "reaction" /\ th[1].op = "add" /\ th[1].edit = 3
  /\ th[2].kind = "assign" /\ th[2].op = "assign" /\ th[2].edit = 1
  /\ th[3].kind = "reaction" /\ th[3].op = "remove" /\ th[3].edit = 2
  /\ LastWritten(1).status = "done"
  /\ Len(LastWritten(1).assigned) = 1

\* ------------------------------------------- streaming composer (zulip.ts)

WORD_FLUSH_THRESHOLD == 40

MAX_MESSAGE_LENGTH == MaxChunkLen

\* code units of an answer: two letters and a line feed
Chars == {"a", "b", "\n"}

IsSpace(c) == c \in {" ", "\n"}

\* the answers handed to finalize
Texts == UNION {[1..n -> Chars] : n \in 0..MaxTextLen}

\* String.prototype.lastIndexOf(pat, pos): the greatest index not above
\* pos at which pat occurs (indices from 0), or -1
lastIndexOf(str, pat, pos) ==
  LET found == {i \in 0..pos :
                  /\ i + Len(pat) <= Len(str)
                  /\ SubSeq(str, i + 1, i + Len(pat)) = pat}
  IN IF found = {} THEN -1
     ELSE CHOOSE i \in found : \A j \in found : j <= i

RECURSIVE trimEnd(_)
trimEnd(str) ==
  IF str = <<>> \/ ~IsSpace(str[Len(str)]) THEN str
  ELSE trimEnd(SubSeq(str, 1, Len(str) - 1))

RECURSIVE trimStart(_)
trimStart(str) ==
  IF str = <<>> \/ ~IsSpace(Head(str)) THEN str
  ELSE trimStart(Tail(str))

\* (mutation of SplitIndex: every cut is a hard cut one past the limit)
SplitIndexPastLimit(remaining, maxLen) == maxLen + 1

\* splitMessage, the choice of the cut: the last blank line within maxLen,
\* else the last line feed, else maxLen itself
SplitIndex(remaining, maxLen) ==
  LET para == lastIndexOf(remaining, <<"\n", "\n">>, maxLen)
      line == IF para <= 0 THEN lastIndexOf(remaining, <<"\n">>, maxLen)
              ELSE para
  IN IF line <= 0 THEN maxLen ELSE line

\* splitMessage, the while loop and the push of what remains
RECURSIVE SplitLoop(_, _, _)
SplitLoop(chunks, remaining, maxLen) ==
  IF Len(remaining) > maxLen
  THEN LET splitIdx == SplitIndex(remaining, maxLen)
       IN SplitLoop(Append(chunks, trimEnd(SubSeq(remaining, 1, splitIdx))),
                    trimStart(SubSeq(remaining, splitIdx + 1,
                                     Len(remaining))),
                    maxLen)
  ELSE IF Len(remaining) > 0 THEN Append(chunks, remaining)
  ELSE chunks

splitMessage(content, maxLen) ==
  IF Len(content) <= maxLen THEN <<content>>
  ELSE SplitLoop(<<>>, content, maxLen)

\* countWords: text.split(/\s+/).filter(Boolean).length, the number of
\* runs of characters other than white space
countWords(text) ==
  Cardinality({i \in 1..Len(text) :
                 /\ ~IsSpace(text[i])
                 /\ i = 1 \/ IsSpace(text[i - 1])})

\* the text the engine has accumulated after n words
Words(n) ==
  [i \in 1..(IF n = 0 THEN 0 ELSE 2 * n - 1) |->
     IF i % 2 = 1 THEN "a" ELSE " "]

\* words a text delta adds
DeltaWords == {1, 39, 40}

Call(op, by, content) == [op |-> op, by |-> by, content |-> content]

\* flush: the pending text is sent as an edit of the message
flush(st) ==
  IF st.finalized \/ st.latestContent = Null
  THEN [stream |-> st, issued |-> <<>>]
  ELSE [stream |-> [st EXCEPT
                      !.lastFlushedWordCount = countWords(st.latestContent),
                      !.latestContent = Null],
        issued |-> <<Call("edit", "flush", st.latestContent)>>]

\* (mutation of update: every call flushes)
updateAlwaysFlushes(st, content) ==
  IF st.finalized THEN [stream |-> st, issued |-> <<>>]
  ELSE flush([st EXCEPT !.textStarted = TRUE, !.spinner = FALSE,
                        !.latestContent = content])

\* update: nothing once finalized; the first text stops the interval; the
\* text is flushed when it has WORD_FLUSH_THRESHOLD words more than the
\* last flushed one
update(st, content) ==
  IF st.finalized THEN [stream |-> st, issued |-> <<>>]
  ELSE LET s1 == [st EXCEPT !.textStarted = TRUE, !.spinner = FALSE,
                            !.latestContent = content]
       IN IF countWords(content) - s1.lastFlushedWordCount
               >= WORD_FLUSH_THRESHOLD
          THEN flush(s1)
          ELSE [stream |-> s1, issued |-> <<>>]

\* the entry of a composer function in the log of handleMessage: the flag
\* it found and the number of calls it issued before its first await
Called(fn, st, n) == [fn |-> fn, finalized |-> st.finalized, issued |-> n]

\* (mutation of ChunksToPost: the loop starts at the first chunk)
ChunksToPostFromFirst(chunks) == chunks

\* finalize, the for loop over chunks[1..]
ChunksToPost(chunks) == Tail(chunks)

\* finalize up to its first await: the flag is set, the interval cleared,
\* and the edit of the placeholder issued with the text or its first chunk
finalize(content) ==
  LET chunks == IF Len(content) <= MAX_MESSAGE_LENGTH THEN <<content>>
                ELSE splitMessage(content, MAX_MESSAGE_LENGTH)
  IN /\ stream' = [stream EXCEPT !.finalized = TRUE, !.spinner = FALSE]
     /\ remote' = Append(remote, Call("edit", "finalize", chunks[1]))
     /\ fb' = [fb EXCEPT !.pc = "finalize", !.answer = content,
                         !.todo = ChunksToPost(chunks),
                         !.calls = Append(@, Called("finalize", stream, 1))]

\* (mutation of cancel: the interval is left running, the flag unset)
cancelLeavesInterval(pc, err) ==
  /\ stream' = stream
  /\ remote' = Append(remote, Call("delete", "cancel", <<>>))
  /\ fb' = [fb EXCEPT !.pc = pc, !.err = err,
                      !.calls = Append(@, Called("cancel", stream, 1))]

\* cancel up to its await: the flag is set, the interval cleared, and the
\* delete of the message issued
cancel(pc, err) ==
  /\ stream' = [stream EXCEPT !.finalized = TRUE, !.spinner = FALSE]
  /\ remote' = Append(remote, Call("delete", "cancel", <<>>))
  /\ fb' = [fb EXCEPT !.pc = pc, !.err = err,
                      !.calls = Append(@, Called("cancel", stream, 1))]

\* what the catch block of handleMessage makes of the value thrown
errorMsg(thrown) ==
  IF thrown.isError THEN thrown.message ELSE "An unknown error occurred"

Thrown(message) == [isError |-> TRUE, message |-> message]

\* what askClaude throws: the error of a failed run, of a stream that
\* ended without a result, or a value that is no Error
EngineFailures ==
  { Thrown("Claude query failed (error_max_turns): turn limit"),
    Thrown("Claude query ended without a result message"),
    [isError |-> FALSE, message |-> "aborted"] }

GatewayFailure == Thrown("connect ETIMEDOUT")

\* the catch block up to its first await
Catch(thrown) == cancel("cancelled", errorMsg(thrown))

OtherVarsUnchanged ==
  UNCHANGED <<services, loopVars, mh, taskVars, feedVars, schedVars>>

\* handleMessage lines 74-85: an empty question cancels the placeholder,
\* any other goes on to fetch the context of the topic
QuestionChecked ==
  \E question \in {"", "text"} :
    /\ fb.pc = "start"
    /\ IF question = ""
       THEN cancel("cancelEmpty", "none")
       ELSE /\ fb' = [fb EXCEPT !.pc = "context"]
            /\ UNCHANGED <<stream, remote>>
    /\ OtherVarsUnchanged

\* the cancel of an empty question settles (its rejection is swallowed)
\* and sendMessage posts the hint
EmptyCancelled ==
  /\ fb.pc = "cancelEmpty"
  /\ fb' = [fb EXCEPT !.pc = "hint"]
  /\ remote' = Append(remote, Call("post", "hint", <<"no question">>))
  /\ UNCHANGED stream
  /\ OtherVarsUnchanged

\* the send of the hint settles; its rejection lands in the catch block
HintSent ==
  \E ok \in BOOLEAN :
    /\ fb.pc = "hint"
    /\ IF ok
       THEN /\ fb' = [fb EXCEPT !.pc = "returned"]
            /\ UNCHANGED <<stream, remote>>
       ELSE Catch(GatewayFailure)
    /\ OtherVarsUnchanged

\* fetchTopicMessages settles: askClaude is called, or the catch block runs
ContextFetched ==
  \E ok \in BOOLEAN :
    /\ fb.pc = "context"
    /\ IF ok
       THEN /\ fb' = [fb EXCEPT !.pc = "claude"]
            /\ UNCHANGED <<stream, remote>>
       ELSE Catch(GatewayFailure)
    /\ OtherVarsUnchanged

\* askClaude receives a text delta and calls onText with the accumulated
\* text, that is streaming.update
TextDelta ==
  \E k \in DeltaWords :
    /\ fb.pc = "claude"
    /\ fb.words + k <= MaxWords
    /\ LET r == update(stream, Words(fb.words + k))
       IN /\ stream' = r.stream
          /\ remote' = remote \o r.issued
          /\ fb' = [fb EXCEPT !.words = @ + k,
                              !.calls = Append(@, Called("update", stream,
                                                       Len(r.issued)))]
    /\ OtherVarsUnchanged

\* the callback of the interval set at line 163
SpinnerFires ==
  /\ stream.spinner
  /\ Cardinality({i \in 1..Len(remote) : remote[i].by = "spinner"})
       < MaxSpinnerEdits
  /\ IF stream.finalized \/ stream.textStarted
     THEN UNCHANGED remote
     ELSE remote' = Append(remote, Call("edit", "spinner", <<"elapsed">>))
  /\ UNCHANGED <<stream, fb>>
  /\ OtherVarsUnchanged

\* askClaude returns the result of the run: finalize is called
ClaudeReturns(answers) ==
  \E answer \in answers :
    /\ fb.pc = "claude"
    /\ finalize(answer)
    /\ OtherVarsUnchanged

\* askClaude throws: the catch block runs
ClaudeThrows ==
  \E thrown \in EngineFailures :
    /\ fb.pc = "claude"
    /\ Catch(thrown)
    /\ OtherVarsUnchanged

\* finalize: the edit of the placeholder settles (its rejection is
\* swallowed) and the first of the further chunks, if any, is sent
FinalizePatched ==
  /\ fb.pc = "finalize"
  /\ IF fb.todo = <<>>
     THEN /\ fb' = [fb EXCEPT !.pc = "returned"]
          /\ UNCHANGED remote
     ELSE /\ fb' = [fb EXCEPT !.pc = "chunk", !.todo = Tail(@)]
          /\ remote' = Append(remote, Call("post", "finalize", Head(fb.todo)))
  /\ UNCHANGED stream
  /\ OtherVarsUnchanged

\* finalize: the send of a chunk settles; the next one is sent, finalize
\* returns, or it rejects into the catch block
ChunkSent ==
  \E ok \in BOOLEAN :
    /\ fb.pc = "chunk"
    /\ IF ~ok
       THEN Catch(GatewayFailure)
       ELSE /\ UNCHANGED stream
            /\ IF fb.todo = <<>>
               THEN /\ fb' = [fb EXCEPT !.pc = "returned"]
                    /\ UNCHANGED remote
               ELSE /\ fb' = [fb EXCEPT !.todo = Tail(@)]
                    /\ remote' = Append(remote,
                         Call("post", "finalize", Head(fb.todo)))
    /\ OtherVarsUnchanged

\* the text sendMessage is called with in the catch block
Apology(detail) ==
  <<"Sorry, I encountered an error processing your request: ", detail>>

\* the cancel of the catch block settles and the apology is sent
Cancelled ==
  /\ fb.pc = "cancelled"
  /\ fb' = [fb EXCEPT !.pc = "apology"]
  /\ remote' = Append(remote, Call("post", "apology", Apology(fb.err)))
  /\ UNCHANGED stream
  /\ OtherVarsUnchanged

\* the send of the apology settles; its rejection is logged
ApologySent ==
  /\ fb.pc = "apology"
  /\ fb' = [fb EXCEPT !.pc = "returned"]
  /\ UNCHANGED <<stream, remote>>
  /\ OtherVarsUnchanged

\* answers of the engine next to a streamed text: one that fits, one that
\* is cut at a line feed, one that is cut hard
SampleAnswers ==
  { <<"a", "b">>,
    <<"a", "\n", "b", "a", "b">>,
    <<"a", "b", "a", "b", "a", "b", "a">> }

NextStream ==
  \/ QuestionChecked
  \/ EmptyCancelled
  \/ HintSent
  \/ ContextFetched
  \/ TextDelta
  \/ SpinnerFires
  \/ ClaudeReturns(SampleAnswers)
  \/ ClaudeThrows
  \/ FinalizePatched
  \/ ChunkSent
  \/ Cancelled
  \/ ApologySent

SpecStream == InitAllServices /\ [][NextStream]_vars

\* askClaude is running and has streamed nothing yet
InitSplit ==
  /\ services = Registry
  /\ InitLoop
  /\ InitChain
  /\ InitTasks
  /\ InitFeed
  /\ InitSched
  /\ stream = NewStream
  /\ remote = << Call("post", "placeholder", <<"Thinking">>) >>
  /\ fb = [NewFallback EXCEPT !.pc = "claude"]

NextSplit ==
  \/ ClaudeReturns(Texts)
  \/ FinalizePatched
  \/ ChunkSent
  \/ Cancelled
  \/ ApologySent

SpecSplit == InitSplit /\ [][NextSplit]_vars

\* ------------------------------------------------ properties of finalize

\* the calls of one kind one function of the composer has issued
Issued(op, by) ==
  SelectSeq(remote, LAMBDA c : c.op = op /\ c.by = by)

\* finalize was called with an answer and has returned
FinalizeReturned ==
  /\ fb.pc = "returned"
  /\ fb.answer # Null
  /\ fb.err = "none"

CeilDiv(n, m) == (n + m - 1) \div m

NoWhiteSpace(text) == \A i \in 1..Len(text) : ~IsSpace(text[i])

\* C21 as stated: a text within the limit gives one edit and no post; a
\* longer one gives one edit and ceil((len - limit) / limit) posts
C21_PostsByLength ==
  FinalizeReturned =>
    /\ Len(Issued("edit", "finalize")) = 1
    /\ Len(Issued("post", "finalize")) =
         IF Len(fb.answer) <= MAX_MESSAGE_LENGTH THEN 0
         ELSE CeilDiv(Len(fb.answer) - MAX_MESSAGE_LENGTH,
                      MAX_MESSAGE_LENGTH)

\* C21 amended: a text within the limit gives one edit and no post; a
\* longer one gives one edit and one post per further chunk of
\* splitMessage, which is ceil((len - limit) / limit) posts when the text
\* holds no white space
C21_PostsByChunks ==
  FinalizeReturned =>
    /\ Len(Issued("edit", "finalize")) = 1
    /\ Len(Issued("post", "finalize")) =
         IF Len(fb.answer) <= MAX_MESSAGE_LENGTH THEN 0
         ELSE Len(splitMessage(fb.answer, MAX_MESSAGE_LENGTH)) - 1
    /\ Len(fb.answer) > MAX_MESSAGE_LENGTH /\ NoWhiteSpace(fb.answer) =>
         Len(Issued("post", "finalize")) =
           CeilDiv(Len(fb.answer) - MAX_MESSAGE_LENGTH, MAX_MESSAGE_LENGTH)

C21_Witness ==
  /\ FinalizeReturned
  /\ fb.answer = <<"a", "b", "a", "b", "a", "b", "a">>
  /\ Len(Issued("edit", "finalize")) = 1
  /\ Len(Issued("post", "finalize")) = 2

\* the text left of s when its white space is taken out
RECURSIVE Squeeze(_)
Squeeze(s) ==
  IF s = <<>> THEN <<>>
  ELSE IF IsSpace(Head(s)) THEN Squeeze(Tail(s))
  ELSE <<Head(s)>> \o Squeeze(Tail(s))

RECURSIVE Concat(_)
Concat(chunks) ==
  IF chunks = <<>> THEN <<>> ELSE Head(chunks) \o Concat(Tail(chunks))

\* the texts the calls of a sequence carry, in order
TextsOf(calls) == [i \in 1..Len(calls) |-> calls[i].content]

\* what finalize has put on the platform: the edit, then the posts
Delivered ==
  TextsOf(SelectSeq(remote, LAMBDA c : c.by = "finalize"))

\* text is whole at its cuts: each chunk is a piece of the text, the pieces
\* follow one another, and only white space lies between, before or after
RECURSIVE CutsOf(_, _)
CutsOf(text, chunks) ==
  IF chunks = <<>> THEN \A i \in 1..Len(text) : IsSpace(text[i])
  ELSE \E k \in 0..(Len(text) - Len(Head(chunks))) :
         /\ \A i \in 1..k : IsSpace(text[i])
         /\ SubSeq(text, k + 1, k + Len(Head(chunks))) = Head(chunks)
         /\ CutsOf(SubSeq(text, k + Len(Head(chunks)) + 1, Len(text)),
                   Tail(chunks))

\* C22: for a text longer than the limit, every chunk is within the limit,
\* the first chunk is the edit of the placeholder and the others are posted
\* in order, and the chunks put end to end are the text less white space
\* at the cuts
C22_ChunksRebuildText ==
  FinalizeReturned /\ Len(fb.answer) > MAX_MESSAGE_LENGTH =>
    /\ \A i \in 1..Len(Delivered) :
         Len(Delivered[i]) <= MAX_MESSAGE_LENGTH
    /\ remote[2] = Call("edit", "finalize", Delivered[1])
    /\ \A i \in 3..Len(remote) : remote[i].op = "post"
    /\ CutsOf(fb.answer, Delivered)
    /\ Squeeze(Concat(Delivered)) = Squeeze(fb.answer)

C22_Witness ==
  /\ FinalizeReturned
  /\ fb.answer = <<"a", "\n", "\n", "b", "\n", "a", "b">>
  /\ Delivered = << <<"a">>, <<"b">>, <<"a", "b">> >>

\* ------------------------------------------- properties of the composer

\* C23 as stated: a call of update, finalize or cancel that finds the
\* composer terminated issues no edit, no delete and no post
C23_TerminatedComposerIsInert ==
  \A i \in 1..Len(fb.calls) :
    fb.calls[i].finalized => fb.calls[i].issued = 0

\* the edits the interval callback has issued
SpinnerEdits == Issued("edit", "spinner")

\* C24: once update, finalize or cancel has been called, the interval
\* callback issues no further elapsed-time edit
C24_CounterStopsForGood ==
  [][fb.calls # <<>> => SpinnerEdits' = SpinnerEdits]_vars

C24_Witness ==
  /\ Len(SpinnerEdits) = MaxSpinnerEdits
  /\ fb.pc = "returned"
  /\ fb.words > 0
  /\ ~stream.spinner

\* the edits flush has issued
StreamingEdits == Issued("edit", "flush")

\* the word count of the text of the last streaming edit
LastEditWords ==
  IF StreamingEdits = <<>> THEN 0
  ELSE countWords(StreamingEdits[Len(StreamingEdits)].content)

\* C25: a call of update issues an edit, with the accumulated text, exactly
\* when that text has at least 40 words more than the text of the last
\* edit (0 at first); the streaming edits never outnumber the multiples of
\* 40 within the word count reached
C25_EditEveryFortyWords ==
  /\ [](Len(StreamingEdits) <= fb.words \div 40)
  /\ [][fb.words' # fb.words =>
          IF fb.words' - LastEditWords >= 40
          THEN StreamingEdits' =
                 Append(StreamingEdits,
                        Call("edit", "flush", Words(fb.words')))
          ELSE StreamingEdits' = StreamingEdits]_vars

C25_Witness ==
  /\ fb.words = 80
  /\ Len(StreamingEdits) = 2
  /\ LastEditWords = 80

\* C29 as stated: the apology sent after a failed run of the engine holds
\* nothing of what the engine threw
C29_ApologyIsGeneric ==
  \A i \in 1..Len(remote) :
    remote[i].by = "apology" =>
      \A t \in EngineFailures : t.message \notin Range(remote[i].content)

====
